---- MODULE Spec2Model ----
(***************************************************************************)
(* A model of the axiom-synthesis and validity-checking engine of the      *)
(* clinical chatbot (src/core.py, src/interface.py).                       *)
(*                                                                         *)
(* SpecCheck  : one validity check of one statement, run either by the     *)
(*              sequential check_statement_validity (called from           *)
(*              process_user_response_streaming) or by                     *)
(*              check_statement_validity_in_parallel (two worker           *)
(*              processes racing to one result queue).                     *)
(***************************************************************************)
EXTENDS Integers, Sequences, FiniteSets, TLC

VARIABLES
    \* ---- the statement under check and the entry point used
    mode,             \* "sequential" | "parallel"
    truth,            \* [orig, neg]: is axioms+stmt / axioms+(not stmt) satisfiable
    \* ---- check_statement_validity (core.py 928-956) and its caller
    seq_pc,           \* position inside check_statement_validity / the caller
    orig_result,      \* core.py 940
    negated_result,   \* core.py 942
    rv,               \* core.py 944-954
    summary,          \* interface.py 330-334, 356-364: valid / original / negated
    threw,            \* history: the query ("orig" | "negated") that raised, if any
    \* ---- check_statement_validity_in_parallel (core.py 958-1021)
    coord_pc,         \* position of the parent process
    proc,             \* state of each worker process p1, p2
    result_q,         \* the multiprocessing Queue (FIFO of tuples)
    first_result,     \* core.py 986
    running_process,  \* core.py 992
    par_rv,           \* core.py 1004-1021
    reads,            \* history: number of result_q.get() calls performed
    alive_seen,       \* history: what is_alive() answered at core.py 996
    terminated,       \* history: the worker terminate() was called on, if any
    \* ---- a Solver context: its knowledge base and the axioms made from it
    nargs,            \* number of arguments of the ordinary Function
    facts,            \* the list of Facts (Solver.generate_facts)
    kb_pc,            \* "facts" | "axioms" | "raised" | "checked"
    axioms,           \* Solver.generate_all_axioms(facts)
    answers,          \* checkSat results of the "is undefined" statements
    valid,            \* verdicts of the diagnosis statements (test_diagnosis)
    \* ---- the date conversions of utils.py
    epochal_date,     \* the argument of convert_epochal_to_str
    date_string,      \* its result, the argument of convert_date_to_epochal
    epochal_back,     \* the result of convert_date_to_epochal
    date_pc,          \* "start" | "str" | "back"
    \* ---- parse_sexpr_from_str (utils.py 217-319)
    sexpr,            \* the text, a sequence of characters
    idx,              \* the next character to read (counted from 1)
    context,          \* the stack of lists being extended
    parse_pc,         \* "start" | "scanning" | "returned" | "raised"
    parse_rv,         \* the value returned
    \* ---- Solver.sexpr_to_term (core.py 541-611)
    comp_sexpr,       \* the parsed s-expression handed to the compiler
    comp_pc,          \* "start" | "compiled" | "raised"
    comp_rv,          \* the Term returned
    \* ---- the life of one Solver context (core.py 376-443, 857-926)
    ctx_entry,        \* "create_solver_and_check_sat" | "solver"
    ctx_pc,           \* position of the code that holds the context
    registries,       \* all_functions, all_terms, all_vars of the context
    ctx_raised,       \* the step that raised, if any
    \* ChatService (src/backend/app/services/chat_service.py)
    conversation_context,  \* self.conversation_context
    added,            \* the exchanges added since the history was last empty
    clock,            \* the number of timestamps taken so far
    history,          \* the list get_conversation_history returned last
    chat_op,          \* the method of ChatService that ran last
    \* ---- one call of ChatService.process_message (chat_service.py 64-131)
    chat_message,     \* the message of the last call
    chat_error,       \* the error_code of the exception it raised, or None
    chat_rv,          \* the response it returned, or None
    \* ---- one run of process_user_response_streaming (interface.py 273-364)
    do_corrupt,       \* the argument do_corrupt
    stream_pc,        \* where the generator is suspended
    frame,            \* the generator's local variables
    events,           \* the events yielded so far
    \* ---- one statement checked both ways (core.py 926-1021)
    query_outcome     \* what each of the statement's two queries answers

seqVars == <<seq_pc, orig_result, negated_result, rv, summary, threw>>
parVars == <<coord_pc, proc, result_q, first_result, running_process, par_rv,
             reads, alive_seen, terminated>>
checkVars == <<mode, truth, seqVars, parVars>>
kbVars == <<nargs, facts, kb_pc, axioms, answers, valid>>
dateVars == <<epochal_date, date_string, epochal_back, date_pc>>
parseVars == <<sexpr, idx, context, parse_pc, parse_rv>>
compVars == <<comp_sexpr, comp_pc, comp_rv>>
ctxVars == <<ctx_entry, ctx_pc, registries, ctx_raised>>
chatVars == <<conversation_context, added, clock, history, chat_op>>
procVars == <<chat_message, chat_error, chat_rv>>
streamVars == <<do_corrupt, stream_pc, frame, events>>
raceVars == <<query_outcome>>
auxVars == <<dateVars, parseVars, compVars, ctxVars, chatVars, procVars, streamVars, raceVars>>
vars == <<checkVars, kbVars, auxVars>>

None == "None"

\* The parts of the state an operation of another component leaves alone.
DateIdle ==
    /\ epochal_date = 0
    /\ date_string = <<>>
    /\ epochal_back = 0
    /\ date_pc = "start"

\* The None parse_sexpr_from_str returns, as an item.
NoTree == [kind |-> "None", chars |-> <<>>, items |-> <<>>]

ParseIdle ==
    /\ sexpr = <<>>
    /\ idx = 1
    /\ context = << <<>> >>
    /\ parse_pc = "start"
    /\ parse_rv = NoTree

\* The absence of a Term.
NoTerm == [kind |-> "None", sort |-> "None", sym |-> <<>>, kids |-> <<>>]

CompIdle ==
    /\ comp_sexpr = NoTree
    /\ comp_pc = "start"
    /\ comp_rv = NoTerm

\* A registry is a list of some length, or None.
Registry(is, n) == [is |-> is, n |-> n]

CtxIdle ==
    /\ ctx_entry = "create_solver_and_check_sat"
    /\ ctx_pc = "none"
    /\ registries = [all_functions |-> Registry("list", 0),
                     all_terms |-> Registry("list", 0),
                     all_vars |-> Registry("list", 0)]
    /\ ctx_raised = None

ChatIdle ==
    /\ conversation_context = <<>>
    /\ added = <<>>
    /\ clock = 0
    /\ history = <<>>
    /\ chat_op = "__init__"

\* a message by its shape: whitespace, then len(message.strip())
\* characters that begin and end with non-whitespace, then whitespace
Message(leading, core, trailing) ==
    [leading |-> leading, core |-> core, trailing |-> trailing]

ProcIdle ==
    /\ chat_message = Message(0, 0, 0)
    /\ chat_error = None
    /\ chat_rv = None

\* interface.py 280-287: the locals of process_user_response_streaming
initial_frame ==
    [assistant_response |-> None, corrupted_response |-> None,
     extracted_logical_stmt |-> None, valid |-> None,
     original_result |-> None, negated_result |-> None,
     durations |-> {}, error_messages |-> <<>>]

StreamIdle ==
    /\ do_corrupt = TRUE
    /\ stream_pc = "start"
    /\ frame = initial_frame
    /\ events = <<>>

RaceIdle == query_outcome = [orig |-> "sat", neg |-> "sat"]

AuxIdle ==
    DateIdle /\ ParseIdle /\ CompIdle /\ CtxIdle /\ ChatIdle /\ ProcIdle
    /\ StreamIdle /\ RaceIdle

(***************************************************************************)
(* The satisfiability engine (cvc5) as seen by the program: a query either *)
(* comes back with a Result or some step of the query throws.              *)
(***************************************************************************)
Results == {"sat", "unsat", "unknown"}

\* Solver.checkSat: a sound, possibly incomplete decision procedure.
checkSat(satisfiable) ==
    IF satisfiable THEN {"sat", "unknown"} ELSE {"unsat", "unknown"}

\* create_solver_and_check_sat: returns checkSat's Result, or raises when
\* fact/axiom generation, compilation or the engine throws.
create_solver_and_check_sat(satisfiable) ==
    checkSat(satisfiable) \cup {"throws"}

(***************************************************************************)
(* check_statement_validity: the precedence table.                         *)
(***************************************************************************)
validity_rv_rule3_after_rule4(orig, neg) ==
    IF neg = "unsat" THEN "true"
    ELSE IF orig = "unsat" THEN "false"
    ELSE IF neg = "sat" THEN "false"
    ELSE IF orig = "sat" THEN "true"
    ELSE "unknown"

validity_rv(orig, neg) ==
    IF neg = "unsat" THEN "true"
    ELSE IF orig = "unsat" THEN "false"
    ELSE IF orig = "sat" THEN "true"
    ELSE IF neg = "sat" THEN "false"
    ELSE "unknown"

\* core.py 940: the original query. An exception is not caught here, so it
\* leaves check_statement_validity at once.
SeqOrigQuery ==
    /\ mode = "sequential"
    /\ seq_pc = "orig"
    /\ \E o \in create_solver_and_check_sat(truth.orig) :
          IF o = "throws"
          THEN /\ seq_pc' = "raised"
               /\ threw' = "orig"
               /\ UNCHANGED orig_result
          ELSE /\ orig_result' = o
               /\ seq_pc' = "negated"
               /\ UNCHANGED threw
    /\ UNCHANGED <<mode, truth, negated_result, rv, summary, parVars, kbVars,
                   auxVars>>

\* core.py 942: the negated query.
SeqNegatedQuery ==
    /\ mode = "sequential"
    /\ seq_pc = "negated"
    /\ \E o \in create_solver_and_check_sat(truth.neg) :
          IF o = "throws"
          THEN /\ seq_pc' = "raised"
               /\ threw' = "negated"
               /\ UNCHANGED negated_result
          ELSE /\ negated_result' = o
               /\ seq_pc' = "combine"
               /\ UNCHANGED threw
    /\ UNCHANGED <<mode, truth, orig_result, rv, summary, parVars, kbVars,
                   auxVars>>

\* core.py 944-956
SeqCombine ==
    /\ mode = "sequential"
    /\ seq_pc = "combine"
    /\ rv' = validity_rv(orig_result, negated_result)
    /\ seq_pc' = "returned"
    /\ UNCHANGED <<mode, truth, orig_result, negated_result, summary, threw,
                   parVars, kbVars, auxVars>>

\* interface.py 329-334: the caller unpacks the returned triple, or catches
\* whatever check_statement_validity raised and sets valid = "unknown"
\* (original_result and negated_result keep their initial None).
caller_on_exception_valid_unset == [valid |-> None, original_result |-> None,
                                    negated_result |-> None]

caller_on_exception == [valid |-> "unknown", original_result |-> None,
                        negated_result |-> None]

StreamingValidity ==
    /\ mode = "sequential"
    /\ seq_pc \in {"returned", "raised"}
    /\ summary' = IF seq_pc = "returned"
                  THEN [valid |-> rv, original_result |-> orig_result,
                        negated_result |-> negated_result]
                  ELSE caller_on_exception
    /\ seq_pc' = "done"
    /\ UNCHANGED <<mode, truth, orig_result, negated_result, rv, threw,
                   parVars, kbVars, auxVars>>

SeqNext == SeqOrigQuery \/ SeqNegatedQuery \/ SeqCombine \/ StreamingValidity

(***************************************************************************)
(* check_statement_validity_in_parallel: the parent (coordinator), the two *)
(* worker processes running check_stmt_job, and the result queue.          *)
(***************************************************************************)
Procs == {"p1", "p2"}

\* core.py 978-979: p1 runs the original query, p2 the negated one.
which_of(p) == IF p = "p1" THEN "orig" ELSE "negated"

query_satisfiable(p) == IF p = "p1" THEN truth.orig ELSE truth.neg

\* Process.is_alive(): started and neither exited nor terminated.
is_alive(p) == proc[p] \in {"running", "added"}

\* core.py 963 / 966: what check_stmt_job puts on the queue. A result is the
\* 3-tuple (pid, which, result); an exception is the 2-tuple (pid, message).
job_message(p, o) ==
    IF o = "throws"
    THEN <<p, "Error in child">>
    ELSE <<p, which_of(p), o>>

\* core.py 983
ParStartP1 ==
    /\ mode = "parallel"
    /\ coord_pc = "start"
    /\ proc' = [proc EXCEPT !["p1"] = "running"]
    /\ coord_pc' = "p1_started"
    /\ UNCHANGED <<kbVars, auxVars, mode, truth, seqVars, result_q,
                   first_result,
                   running_process, par_rv, reads, alive_seen, terminated>>

\* core.py 984
ParStartP2 ==
    /\ mode = "parallel"
    /\ coord_pc = "p1_started"
    /\ proc' = [proc EXCEPT !["p2"] = "running"]
    /\ coord_pc' = "waiting"
    /\ UNCHANGED <<kbVars, auxVars, mode, truth, seqVars, result_q,
                   first_result,
                   running_process, par_rv, reads, alive_seen, terminated>>

\* core.py 958-966: the worker finishes its query and puts its message.
JobPut(p) ==
    /\ mode = "parallel"
    /\ proc[p] = "running"
    /\ \E o \in create_solver_and_check_sat(query_satisfiable(p)) :
          result_q' = Append(result_q, job_message(p, o))
    /\ proc' = [proc EXCEPT ![p] = "added"]
    /\ UNCHANGED <<kbVars, auxVars, mode, truth, seqVars, coord_pc,
                   first_result,
                   running_process, par_rv, reads, alive_seen, terminated>>

\* check_stmt_job returns and the worker process ends.
JobExit(p) ==
    /\ mode = "parallel"
    /\ proc[p] = "added"
    /\ proc' = [proc EXCEPT ![p] = "exited"]
    /\ UNCHANGED <<kbVars, auxVars, mode, truth, seqVars, coord_pc, result_q,
                   first_result,
                   running_process, par_rv, reads, alive_seen, terminated>>

\* core.py 986-992: the blocking get, the 3-way unpacking (a ValueError on
\* the 2-tuple of an error report) and the choice of the other process.
other_process(finished_pid) == IF finished_pid = "p1" THEN "p2" ELSE "p1"

ParGet ==
    /\ mode = "parallel"
    /\ coord_pc = "waiting"
    /\ result_q # <<>>
    /\ first_result' = Head(result_q)
    /\ result_q' = Tail(result_q)
    /\ reads' = reads + 1
    /\ IF Len(Head(result_q)) = 3
       THEN /\ running_process' = other_process(Head(result_q)[1])
            /\ coord_pc' = "check_alive"
       ELSE /\ coord_pc' = "raised"
            /\ UNCHANGED running_process
    /\ UNCHANGED <<kbVars, auxVars, mode, truth, seqVars, proc, par_rv,
                   alive_seen, terminated>>

\* core.py 996-1001: terminate and join the other worker if it is alive.
ParTerminate ==
    /\ mode = "parallel"
    /\ coord_pc = "check_alive"
    /\ alive_seen' = IF is_alive(running_process) THEN "alive" ELSE "dead"
    /\ IF is_alive(running_process)
       THEN /\ proc' = [proc EXCEPT ![running_process] = "terminated"]
            /\ terminated' = running_process
       ELSE UNCHANGED <<proc, terminated>>
    /\ coord_pc' = "verdict"
    /\ UNCHANGED <<kbVars, auxVars, mode, truth, seqVars, result_q,
                   first_result,
                   running_process, par_rv, reads>>

\* core.py 1004-1019: the verdict from (finished_pid, result) alone.
parallel_rv_same_table(finished_pid, result) ==
    IF result = "unsat" THEN "false"
    ELSE IF result = "sat" THEN "true"
    ELSE "unknown"

parallel_rv(finished_pid, result) ==
    IF finished_pid = "p2"
    THEN IF result = "unsat" THEN "true"
         ELSE IF result = "sat" THEN "false"
         ELSE "unknown"
    ELSE IF result = "unsat" THEN "false"
         ELSE IF result = "sat" THEN "true"
         ELSE "unknown"

ParVerdict ==
    /\ mode = "parallel"
    /\ coord_pc = "verdict"
    /\ par_rv' = parallel_rv(first_result[1], first_result[3])
    /\ coord_pc' = "returned"
    /\ UNCHANGED <<kbVars, auxVars, mode, truth, seqVars, proc, result_q,
                   first_result,
                   running_process, reads, alive_seen, terminated>>

ParNext ==
    \/ ParStartP1
    \/ ParStartP2
    \/ \E p \in Procs : JobPut(p)
    \/ \E p \in Procs : JobExit(p)
    \/ ParGet
    \/ ParTerminate
    \/ ParVerdict

(***************************************************************************)
(* The specification of one validity check.                                *)
(***************************************************************************)
CheckInit ==
    /\ mode \in {"sequential", "parallel"}
    /\ truth \in [orig : BOOLEAN, neg : BOOLEAN]
    /\ seq_pc = "orig"
    /\ orig_result = None
    /\ negated_result = None
    /\ rv = None
    /\ summary = [valid |-> None, original_result |-> None,
                  negated_result |-> None]
    /\ threw = None
    /\ coord_pc = "start"
    /\ proc = [p \in Procs |-> "unstarted"]
    /\ result_q = <<>>
    /\ first_result = <<>>
    /\ running_process = None
    /\ par_rv = None
    /\ reads = 0
    /\ alive_seen = None
    /\ terminated = None
    /\ nargs = 1
    /\ facts = <<>>
    /\ kb_pc = "facts"
    /\ axioms = <<>>
    /\ answers = <<>>
    /\ valid = <<>>
    /\ AuxIdle

CheckNext == SeqNext \/ ParNext

SpecCheck == CheckInit /\ [][CheckNext]_vars

(***************************************************************************)
(* Properties of the validity check (SpecCheck).                           *)
(***************************************************************************)
Verdicts == {"true", "false", "unknown"}

\* C1: check_statement_validity maps every pair (origResult, negResult) of
\* Results to a verdict by the ordered rules: negResult unsat -> "true";
\* else origResult unsat -> "false"; else origResult sat -> "true"; else
\* negResult sat -> "false"; else "unknown". Both-sat and both-unsat give
\* "true".
C1_PrecedenceTable ==
    seq_pc = "returned" =>
        /\ orig_result \in Results /\ negated_result \in Results
        /\ rv \in Verdicts
        /\ (negated_result = "unsat") => (rv = "true")
        /\ (negated_result # "unsat" /\ orig_result = "unsat") => (rv = "false")
        /\ (negated_result # "unsat" /\ orig_result = "sat") => (rv = "true")
        /\ (negated_result = "sat" /\ orig_result = "unknown") => (rv = "false")
        /\ (negated_result = "unknown" /\ orig_result = "unknown")
              => (rv = "unknown")
        /\ (orig_result = "sat" /\ negated_result = "sat") => (rv = "true")
        /\ (orig_result = "unsat" /\ negated_result = "unsat") => (rv = "true")

\* C1 witness: the sat/sat tie has been decided (toward "true").
C1_Witness ==
    /\ seq_pc = "returned"
    /\ orig_result = "sat" /\ negated_result = "sat"
    /\ rv = "true"

\* C3 (as stated): when exactly one query throws, its outcome counts as
\* "unknown" and the verdict is the precedence table applied to that and
\* the other query's outcome.
C3_OneThrowStillDecides ==
    (seq_pc = "done" /\ threw # None) =>
        IF threw = "negated"
        THEN summary.valid = validity_rv(orig_result, "unknown")
        ELSE \E o \in checkSat(truth.neg) :
                summary.valid = validity_rv("unknown", o)

\* C3 (amended): a throw in either query leaves check_statement_validity
\* at once: no verdict is combined, a throw in the original query means the
\* negated query is never run, and the caller reports valid = "unknown"
\* with both raw results None whatever the other query answered.
C3_ThrowAbortsWholeCheck ==
    /\ (threw # None) => (rv = None /\ negated_result = None)
    /\ (threw = "orig") => (orig_result = None)
    /\ (seq_pc = "done" /\ threw # None) =>
          summary = [valid |-> "unknown", original_result |-> None,
                     negated_result |-> None]

\* C3 witness: the negated query threw after the original query had come
\* back unsat, and the caller reported "unknown".
C3_Witness ==
    /\ seq_pc = "done"
    /\ threw = "negated"
    /\ orig_result = "unsat"
    /\ summary.valid = "unknown"

\* C4: check_statement_validity_in_parallel derives its verdict from the
\* first message on the queue and the query that produced it only: negated
\* unsat -> "true", negated sat -> "false", original unsat -> "false",
\* original sat -> "true", any other result -> "unknown".
C4_FirstMessageDecides ==
    coord_pc = "returned" =>
        LET which == first_result[2]
            result == first_result[3]
        IN  /\ which \in {"orig", "negated"}
            /\ (which = "negated" /\ result = "unsat") => (par_rv = "true")
            /\ (which = "negated" /\ result = "sat") => (par_rv = "false")
            /\ (which = "orig" /\ result = "unsat") => (par_rv = "false")
            /\ (which = "orig" /\ result = "sat") => (par_rv = "true")
            /\ (result \notin {"sat", "unsat"}) => (par_rv = "unknown")

\* C4 witness: the negated query answered sat first, the original query's
\* sat sits unread on the queue, and the verdict is "false".
C4_Witness ==
    /\ coord_pc = "returned"
    /\ first_result = <<"p2", "negated", "sat">>
    /\ result_q = << <<"p1", "orig", "sat">> >>
    /\ par_rv = "false"

\* C5: under every interleaving the coordinator reads the queue exactly
\* once, and after the read terminates the other worker iff it is still
\* alive.
other_alive_when_done ==
    IF alive_seen # None
    THEN alive_seen = "alive"
    ELSE is_alive(other_process(first_result[1]))

C5_ReadOnceTerminateIffAlive ==
    /\ reads <= 1
    /\ (coord_pc \in {"returned", "raised"}) =>
          /\ reads = 1
          /\ (terminated = other_process(first_result[1]))
                <=> other_alive_when_done

\* C6: check_statement_validity_in_parallel returns one of "true", "false",
\* "unknown" on every run in which a worker wrote to the queue, also when
\* the first message is a worker's error report.
C6_AlwaysReturnsVerdict ==
    (reads = 1 /\ coord_pc \notin {"check_alive", "verdict"}) =>
        (coord_pc = "returned" /\ par_rv \in Verdicts)

(***************************************************************************)
(* The knowledge base and the axioms synthesized from it.                  *)
(*                                                                         *)
(* SpecCWA    : an ordinary Function ("heart-rate") of 0..2 integer        *)
(*              arguments with a floating-point result, its core and CWA   *)
(*              axioms, and the "is undefined" statements checked against  *)
(*              them.                                                      *)
(* SpecInterp : the interpolatable Function D(ICD, time), alone or beside  *)
(*              the built-in heart-rate facts, its interpolation axioms    *)
(*              and the verdicts of the statements (= (D icd date) value). *)
(***************************************************************************)
MaxFacts == 3       \* diagnosis Facts in a knowledge base
MaxOrdFacts == 2    \* Facts of the ordinary Function in a knowledge base

\* core.py 28-30, 1026
diagnosis_date1 == 13180
diagnosis_date2 == 13208
diagnosis_date3 == 13239
delta == 14
\* core.py 841-844: the dates of the built-in heart-rate Facts
hr_date1 == 12815
hr_date2 == 13180
\* interface.py 163: a date with no Fact at all
other_date == 17167

tfu_true == "tfu_true"
tfu_false == "tfu_false"
tfu_true_or_false == "tfu_true_or_false"
TFU == {tfu_true, tfu_false, tfu_true_or_false}
NaN == "NaN"
FPVals == {NaN, "55.0", "60.0"}

ICDSeq == <<"E11", "I10">>
ICDs == {ICDSeq[k] : k \in 1..Len(ICDSeq)}
FactTimes == {diagnosis_date1, diagnosis_date2, diagnosis_date3}
\* core.py 1036-1057: the dates test_diagnosis asks about
QueryDates == {diagnosis_date1 - delta, diagnosis_date1, diagnosis_date1 + delta,
               diagnosis_date2, diagnosis_date2 + delta,
               diagnosis_date3, diagnosis_date3 + delta}
ArgVals == {hr_date1, hr_date2}
Arities == {0, 1, 2}

\* Solver.all_functions, in registration order (core.py 822-835).
all_functions == <<"heart-rate", "D">>

Fact(function, result, args) ==
    [function |-> function, result |-> result, args |-> args]

\* core.py 841-844
builtin_heart_rate_facts ==
    << Fact("heart-rate", "55.0", <<hr_date1>>),
       Fact("heart-rate", "60.0", <<hr_date2>>) >>

relevant_facts(fname, fs) == SelectSeq(fs, LAMBDA f : f.function = fname)

(***************************************************************************)
(* Terms. A node is [op, i, n, kids]: "eq"/"geq"/"lt" compare the i-th     *)
(* formal argument with the integer literal n.                             *)
(***************************************************************************)
Node(op, i, n, kids) == [op |-> op, i |-> i, n |-> n, kids |-> kids]

mkBoolean(b) == Node(IF b THEN "true" ELSE "false", 0, 0, <<>>)
equal_arg(i, n) == Node("eq", i, n, <<>>)
geq(i, n) == Node("geq", i, n, <<>>)
lt(i, n) == Node("lt", i, n, <<>>)
not_(t) == Node("not", 0, 0, <<t>>)

\* Solver._and_or (core.py 676-691): 0 children -> the neutral constant,
\* 1 child -> the child itself.
and_(ts) ==
    IF Len(ts) = 0 THEN mkBoolean(TRUE)
    ELSE IF Len(ts) = 1 THEN ts[1]
    ELSE Node("and", 0, 0, ts)

or_(ts) ==
    IF Len(ts) = 0 THEN mkBoolean(FALSE)
    ELSE IF Len(ts) = 1 THEN ts[1]
    ELSE Node("or", 0, 0, ts)

\* An axiom is [kind, fn, lhs, args, eq, val]:
\*   "forall": forall formal args x . lhs(x) = (fn(x) eq val)
\*   "fact"  : fn(args) eq val
ForallAxiom(fn, lhs, eq, val) ==
    [kind |-> "forall", fn |-> fn, lhs |-> lhs, args |-> <<>>, eq |-> eq,
     val |-> val]

FactAxiom(fn, args, eq, val) ==
    [kind |-> "fact", fn |-> fn, lhs |-> mkBoolean(TRUE), args |-> args,
     eq |-> eq, val |-> val]

(***************************************************************************)
(* Function.generate_core_axioms (core.py 142-174)                         *)
(***************************************************************************)
\* A generator that does not skip the diagnosis Facts.
generate_core_axioms_for_all(fname, fs) ==
    LET rel == relevant_facts(fname, fs)
    IN  [k \in 1..Len(rel) |->
            FactAxiom(fname, rel[k].args,
                      IF fname = "D" THEN "=" ELSE "fp=", rel[k].result)]

generate_core_axioms(fname, fs) ==
    LET rel == relevant_facts(fname, fs)
    IN  IF fname = "D"
        THEN <<>>
        ELSE [k \in 1..Len(rel) |->
                 FactAxiom(fname, rel[k].args, "fp=", rel[k].result)]

(***************************************************************************)
(* Function.generate_CWA_axioms_for_others (core.py 182-232)               *)
(***************************************************************************)
\* core.py 222-223: the not_defined term when the Function has no Fact.
no_facts_not_defined == mkBoolean(FALSE)

fact_mismatch(n, f) ==
    not_(and_([j \in 1..n |-> equal_arg(j, f.args[j])]))

generate_CWA_axioms_for_others(fname, n, fs) ==
    LET rel == relevant_facts(fname, fs)
        not_defined ==
            IF Len(rel) > 0
            THEN and_([k \in 1..Len(rel) |-> fact_mismatch(n, rel[k])])
            ELSE no_facts_not_defined
    IN  IF fname = "D" THEN <<>>
        ELSE IF n > 0 THEN << ForallAxiom(fname, not_defined, "fp=", NaN) >>
        ELSE <<>>

(***************************************************************************)
(* InterpolatableFunction.generate_CWA_axioms_for_diagnosis                *)
(* (core.py 268-356). The result is [raised, axioms].                      *)
(***************************************************************************)
MinOf(S) == CHOOSE m \in S : \A x \in S : m <= x
MaxOf(S) == CHOOSE m \in S : \A x \in S : m >= x

\* sorted(list(these_times)), core.py 297
RECURSIVE ordered(_)
ordered(S) == IF S = {} THEN <<>> ELSE <<MinOf(S)>> \o ordered(S \ {MinOf(S)})

\* core.py 291
these_facts_of(icd, fs) ==
    SelectSeq(relevant_facts("D", fs), LAMBDA f : f.args[1] = icd)

\* core.py 294
these_times_of(icd, fs) ==
    LET tf == these_facts_of(icd, fs)
    IN  {tf[k].args[2] : k \in 1..Len(tf)}

\* core.py 299: a dict comprehension, so of several Facts recorded at one
\* time the last one in list order is the one kept.
time2fact(icd, fs, t) ==
    LET tf == these_facts_of(icd, fs)
    IN  tf[MaxOf({k \in 1..Len(tf) : tf[k].args[2] = t})]

\* core.py 304-312: a result other than tfu_true / tfu_false at any time but
\* the latest raises.
unsupported_result(icd, fs) ==
    LET ot == ordered(these_times_of(icd, fs))
    IN  \E i \in 1..(Len(ot) - 1) :
           time2fact(icd, fs, ot[i]).result \notin {tfu_true, tfu_false}

\* core.py 313-316: the latest Fact opens the unbounded range of the true
\* list when its result is tfu_true and of the false list otherwise.
last_bucket(result) == IF result = tfu_true THEN "true" ELSE "false"

Range(start, stop, bounded, bucket) ==
    [start |-> start, stop |-> stop, bounded |-> bounded, bucket |-> bucket]

\* core.py 302-316: every range, in the order the lists receive them.
all_ranges(icd, fs) ==
    LET ot == ordered(these_times_of(icd, fs))
        n == Len(ot)
    IN  [i \in 1..n |->
            IF i < n
            THEN Range(ot[i], ot[i + 1], TRUE,
                       IF time2fact(icd, fs, ot[i]).result = tfu_true
                       THEN "true" ELSE "false")
            ELSE Range(ot[n], 0, FALSE,
                       last_bucket(time2fact(icd, fs, ot[n]).result))]

true_disjuncts(icd, fs) ==
    SelectSeq(all_ranges(icd, fs), LAMBDA r : r.bucket = "true")

false_disjuncts(icd, fs) ==
    SelectSeq(all_ranges(icd, fs), LAMBDA r : r.bucket = "false")

\* a range without its exclusive end
range2disjunct_open_ended(r) == geq(2, r.start)

\* core.py 320-325; the formal argument time is the second one.
range2disjunct(r) ==
    IF r.bounded
    THEN and_(<<geq(2, r.start), lt(2, r.stop)>>)
    ELSE geq(2, r.start)

disjunct_terms(rs) == [k \in 1..Len(rs) |-> range2disjunct(rs[k])]

\* core.py 338-355: the three axioms of one observed ICD. They quantify over
\* ICD and time and do not mention observed_ICD.
diagnosis_axioms_for(icd, fs) ==
    << ForallAxiom("D", lt(2, MinOf(these_times_of(icd, fs))), "=",
                   tfu_true_or_false),
       ForallAxiom("D", or_(disjunct_terms(true_disjuncts(icd, fs))), "=",
                   tfu_true),
       ForallAxiom("D", or_(disjunct_terms(false_disjuncts(icd, fs))), "=",
                   tfu_false) >>

observed_icds(fs) ==
    LET rel == relevant_facts("D", fs)
    IN  {rel[k].args[1] : k \in 1..Len(rel)}

\* The loop over observed_icds (core.py 290); a Python set has no specified
\* order, the axioms are listed here in the order of ICDSeq.
RECURSIVE diagnosis_axioms_from(_, _)
diagnosis_axioms_from(k, fs) ==
    IF k > Len(ICDSeq) THEN <<>>
    ELSE (IF ICDSeq[k] \in observed_icds(fs)
          THEN diagnosis_axioms_for(ICDSeq[k], fs) ELSE <<>>)
         \o diagnosis_axioms_from(k + 1, fs)

generate_CWA_axioms_for_diagnosis(fs) ==
    IF \E icd \in observed_icds(fs) : unsupported_result(icd, fs)
    THEN [raised |-> TRUE, axioms |-> <<>>]
    ELSE [raised |-> FALSE, axioms |-> diagnosis_axioms_from(1, fs)]

\* Function.generate_CWA_axioms / InterpolatableFunction.generate_CWA_axioms
\* (core.py 176-180, 247-265)
generate_CWA_axioms(fname, n, fs) ==
    IF fname = "D"
    THEN generate_CWA_axioms_for_diagnosis(fs)
    ELSE [raised |-> FALSE,
          axioms |-> generate_CWA_axioms_for_others(fname, n, fs)]

\* Solver.generate_all_axioms (core.py 793-801)
RECURSIVE all_axioms_from(_, _, _)
all_axioms_from(k, n, fs) ==
    IF k > Len(all_functions) THEN [raised |-> FALSE, axioms |-> <<>>]
    ELSE LET cwa == generate_CWA_axioms(all_functions[k], n, fs)
             rest == all_axioms_from(k + 1, n, fs)
         IN  [raised |-> cwa.raised \/ rest.raised,
              axioms |-> generate_core_axioms(all_functions[k], fs)
                         \o cwa.axioms \o rest.axioms]

generate_all_axioms(n, fs) == all_axioms_from(1, n, fs)

(***************************************************************************)
(* What the axioms mean to the engine. Every axiom constrains its function *)
(* at the quantified (or named) argument tuple only, so an assertion set   *)
(* has a model iff every argument tuple admits a value. Integer arguments  *)
(* are compared with Fact values only, so the tuples over the Fact values  *)
(* and one more value stand for all of them.                               *)
(***************************************************************************)
RECURSIVE EvalTerm(_, _)
EvalTerm(t, x) ==
    CASE t.op = "true"  -> TRUE
      [] t.op = "false" -> FALSE
      [] t.op = "eq"    -> x[t.i] = t.n
      [] t.op = "geq"   -> x[t.i] >= t.n
      [] t.op = "lt"    -> x[t.i] < t.n
      [] t.op = "not"   -> ~EvalTerm(t.kids[1], x)
      [] t.op = "and"   -> \A k \in 1..Len(t.kids) : EvalTerm(t.kids[k], x)
      [] t.op = "or"    -> \E k \in 1..Len(t.kids) : EvalTerm(t.kids[k], x)

\* Kind.FLOATINGPOINT_EQ is IEEE equality (fp.eq): false when either side
\* is NaN. Kind.EQUAL is identity of values.
EqHolds(eq, a, b) ==
    IF eq = "fp=" THEN a # NaN /\ b # NaN /\ a = b ELSE a = b

AxiomHoldsAt(ax, x, d) ==
    IF ax.kind = "forall"
    THEN EvalTerm(ax.lhs, x) <=> EqHolds(ax.eq, d, ax.val)
    ELSE (x = ax.args) => EqHolds(ax.eq, d, ax.val)

Codomain(fname) == IF fname = "D" THEN TFU ELSE FPVals

RECURSIVE Tuples(_, _)
Tuples(n, S) ==
    IF n = 0 THEN {<<>>}
    ELSE {Append(t, v) : t \in Tuples(n - 1, S), v \in S}

Points(fname, n) ==
    IF fname = "D" THEN {<<icd, t>> : icd \in ICDs, t \in QueryDates}
    ELSE Tuples(n, ArgVals \cup {other_date})

\* The values fname(x) can take in a model of axs.
PointValues(axs, fname, x) ==
    {d \in Codomain(fname) :
        \A k \in 1..Len(axs) :
            (axs[k].fn = fname) => AxiomHoldsAt(axs[k], x, d)}

Consistent(axs, n) ==
    \A k \in 1..Len(all_functions) :
        \A x \in Points(all_functions[k], n) :
            PointValues(axs, all_functions[k], x) # {}

\* A test statement (eq (fn args) val); its negation is (not ...).
Stmt(fn, args, eq, val) == [fn |-> fn, args |-> args, eq |-> eq, val |-> val]

Satisfiable(axs, n, stmt, negated) ==
    /\ Consistent(axs, n)
    /\ \E d \in PointValues(axs, stmt.fn, stmt.args) :
          EqHolds(stmt.eq, d, stmt.val) # negated

\* Solver.checkSat on these assertion sets: an unsatisfiable set is refuted;
\* a satisfiable one is reported as sat or, the axioms being quantified, as
\* unknown (e says which).
checkSat_quantified(satisfiable, e) == IF satisfiable THEN e ELSE "unsat"

\* check_statement_validity on a statement over the context's axioms.
check_statement_validity(axs, n, stmt, e) ==
    validity_rv(checkSat_quantified(Satisfiable(axs, n, stmt, FALSE), e),
                checkSat_quantified(Satisfiable(axs, n, stmt, TRUE), e))

(***************************************************************************)
(* Actions on a Solver context.                                            *)
(***************************************************************************)
count_facts(fname) == Len(relevant_facts(fname, facts))

\* A Fact of the ordinary Function joins the knowledge base.
AddOrdinaryFact ==
    /\ kb_pc = "facts"
    /\ count_facts("heart-rate") < MaxOrdFacts
    /\ \E r \in FPVals \ {NaN}, a \in Tuples(nargs, ArgVals) :
          facts' = Append(facts, Fact("heart-rate", r, a))
    /\ UNCHANGED <<checkVars, auxVars, nargs, kb_pc, axioms, answers, valid>>

\* A diagnosis Fact joins the knowledge base; the Facts of one relation are
\* listed chronologically, as in generate_facts (core.py 849-854).
AddDiagnosisFact ==
    /\ kb_pc = "facts"
    /\ count_facts("D") < MaxFacts
    /\ \E r \in TFU, icd \in ICDs, t \in FactTimes :
          /\ \A k \in 1..Len(facts) :
                (facts[k].function = "D") => (facts[k].args[2] <= t)
          /\ facts' = Append(facts, Fact("D", r, <<icd, t>>))
    /\ UNCHANGED <<checkVars, auxVars, nargs, kb_pc, axioms, answers, valid>>

\* create_solver_and_check_sat, core.py 895-903: the axioms of the context,
\* or the exception axiom generation raises.
GenerateAxioms ==
    /\ kb_pc = "facts"
    /\ LET g == generate_all_axioms(nargs, facts)
       IN  IF g.raised
           THEN /\ kb_pc' = "raised"
                /\ UNCHANGED axioms
           ELSE /\ kb_pc' = "axioms"
                /\ axioms' = g.axioms
    /\ UNCHANGED <<checkVars, auxVars, nargs, facts, answers, valid>>

\* create_solver_and_check_sat (core.py 909-926) on the statements
\* (fp= (heart-rate x) NaN) and (= (heart-rate x) NaN), for every x.
CheckUndefined ==
    /\ kb_pc = "axioms"
    /\ \E e \in checkSat(TRUE) :
          answers' =
             [x \in Points("heart-rate", nargs) |->
                [fp |-> checkSat_quantified(
                           Satisfiable(axioms, nargs,
                               Stmt("heart-rate", x, "fp=", NaN), FALSE), e),
                 eq |-> checkSat_quantified(
                           Satisfiable(axioms, nargs,
                               Stmt("heart-rate", x, "=", NaN), FALSE), e)]]
    /\ kb_pc' = "checked"
    /\ UNCHANGED <<checkVars, auxVars, nargs, facts, axioms, valid>>

\* test_diagnosis (core.py 1031-1063): check_statement_validity on
\* (= (D icd date) value) for every date and value.
test_diagnosis ==
    /\ kb_pc = "axioms"
    /\ \E e \in checkSat(TRUE) :
          valid' =
             [q \in ICDs \X QueryDates \X TFU |->
                check_statement_validity(axioms, nargs,
                    Stmt("D", <<q[1], q[2]>>, "=", q[3]), e)]
    /\ kb_pc' = "checked"
    /\ UNCHANGED <<checkVars, auxVars, nargs, facts, axioms, answers>>

CheckIdle ==
    /\ mode = "sequential"
    /\ truth = [orig |-> TRUE, neg |-> TRUE]
    /\ seq_pc = "orig"
    /\ orig_result = None
    /\ negated_result = None
    /\ rv = None
    /\ summary = [valid |-> None, original_result |-> None,
                  negated_result |-> None]
    /\ threw = None
    /\ coord_pc = "start"
    /\ proc = [p \in Procs |-> "unstarted"]
    /\ result_q = <<>>
    /\ first_result = <<>>
    /\ running_process = None
    /\ par_rv = None
    /\ reads = 0
    /\ alive_seen = None
    /\ terminated = None

CWAInit ==
    /\ CheckIdle
    /\ AuxIdle
    /\ nargs \in Arities
    /\ facts = <<>>
    /\ kb_pc = "facts"
    /\ axioms = <<>>
    /\ answers = <<>>
    /\ valid = <<>>

CWANext == AddOrdinaryFact \/ GenerateAxioms \/ CheckUndefined

SpecCWA == CWAInit /\ [][CWANext]_vars

InterpInit ==
    /\ CheckIdle
    /\ AuxIdle
    /\ nargs = 1
    /\ facts \in {<<>>, builtin_heart_rate_facts}
    /\ kb_pc = "facts"
    /\ axioms = <<>>
    /\ answers = <<>>
    /\ valid = <<>>

InterpNext == AddDiagnosisFact \/ GenerateAxioms \/ test_diagnosis

SpecInterp == InterpInit /\ [][InterpNext]_vars

(***************************************************************************)
(* Claims about the knowledge-base axioms.                                 *)
(***************************************************************************)
diagnosis_facts == relevant_facts("D", facts)

ordinary_facts == relevant_facts("heart-rate", facts)

\* The result the Facts of icd give for time t: unknown before the earliest
\* Fact, else the result of the Fact with the greatest time <= t.
interpolated(icd, t) ==
    LET tf == these_facts_of(icd, facts)
        at_or_before == {k \in 1..Len(tf) : tf[k].args[2] <= t}
    IN  IF at_or_before = {} THEN tfu_true_or_false
        ELSE LET last == CHOOSE k \in at_or_before :
                            \A j \in at_or_before :
                               tf[j].args[2] <= tf[k].args[2]
             IN  tf[last].result

\* True/false Facts for one discriminator value at distinct times.
one_discriminator_true_false(icd) ==
    /\ Len(diagnosis_facts) > 0
    /\ \A k \in 1..Len(diagnosis_facts) :
          /\ diagnosis_facts[k].args[1] = icd
          /\ diagnosis_facts[k].result \in {tfu_true, tfu_false}
          /\ \A j \in 1..Len(diagnosis_facts) :
                (diagnosis_facts[j].args[2] = diagnosis_facts[k].args[2])
                   => (j = k)

\* C2: for true/false Facts of one discriminator value at distinct times,
\* check_statement_validity returns "true" for (= (D icd t) v) when v is the
\* result of the Fact with the greatest time <= t (unknown when t is before
\* the earliest Fact) and "false" for the other two values, at every time t.
C2_InterpolatedVerdicts ==
    (kb_pc = "checked") =>
        \A icd \in ICDs :
            one_discriminator_true_false(icd) =>
                \A t \in QueryDates, v \in TFU :
                    valid[<<icd, t, v>>] =
                        IF v = interpolated(icd, t) THEN "true" ELSE "false"

\* The diagnosis axioms on their own do force the interpolated value: with
\* no Fact of the ordinary Function in the knowledge base the verdicts of
\* C2 are the ones returned.
C2_VerdictsWithoutOrdinaryFacts ==
    (Len(ordinary_facts) = 0) => C2_InterpolatedVerdicts

\* C7: axiom generation raises whenever a diagnosis Fact has a result that
\* is neither true nor false, be it the earliest, an intermediate or the
\* latest Fact of its discriminator value: generation never completes on
\* such a knowledge base.
C7_UnknownResultRaises ==
    (kb_pc \in {"axioms", "checked"}) =>
        \A k \in 1..Len(diagnosis_facts) :
            diagnosis_facts[k].result \in {tfu_true, tfu_false}

\* C8: axiom generation raises when two diagnosis Facts have the same
\* discriminator value and the same time but different results: generation
\* never completes on such a knowledge base.
C8_ConflictingResultsRaise ==
    (kb_pc \in {"axioms", "checked"}) =>
        \A j, k \in 1..Len(diagnosis_facts) :
            (diagnosis_facts[j].args = diagnosis_facts[k].args)
               => (diagnosis_facts[j].result = diagnosis_facts[k].result)

is_known_fact(x) ==
    \E k \in 1..Len(ordinary_facts) : ordinary_facts[k].args = x

\* C9: with all the axioms asserted, (fp= (F x) NaN) is satisfiable for an
\* argument tuple x with no Fact and unsatisfiable for one that is a Fact.
C9_UndefinedSatisfiableIffNoFact ==
    (kb_pc = "checked" /\ nargs > 0) =>
        \A x \in Points("heart-rate", nargs) :
            IF is_known_fact(x)
            THEN answers[x].fp = "unsat"
            ELSE answers[x].fp # "unsat"

\* C10: an ordinary Function of at least one argument gets one CWA axiom,
\* and its undefined side holds exactly for the argument tuples that match
\* no Fact (for every tuple when there are no Facts); a Function of no
\* argument gets no CWA axiom.
C10_UndefinedExactlyWithoutFact ==
    (kb_pc \in {"axioms", "checked"}) =>
        LET cwa == SelectSeq(axioms, LAMBDA ax : ax.kind = "forall"
                                                 /\ ax.fn = "heart-rate")
        IN  IF nargs = 0 THEN Len(cwa) = 0
            ELSE /\ Len(cwa) = 1
                 /\ cwa[1].val = NaN
                 /\ \A x \in Points("heart-rate", nargs) :
                       EvalTerm(cwa[1].lhs, x) <=> ~is_known_fact(x)

(***************************************************************************)
(* Claims about the base axioms.                                           *)
(***************************************************************************)
base_axioms == SelectSeq(axioms, LAMBDA ax : ax.kind = "fact")

has_base_axiom(f) ==
    \E k \in 1..Len(base_axioms) :
        /\ base_axioms[k].fn = f.function
        /\ base_axioms[k].args = f.args
        /\ base_axioms[k].val = f.result

\* C11 (as stated): when generate_all_axioms completes, every Fact of the
\* knowledge base, the diagnosis Facts included, has a base axiom
\* F(args) = result among the axioms.
C11_EveryFactHasBaseAxiom ==
    (kb_pc \in {"axioms", "checked"}) =>
        \A k \in 1..Len(facts) : has_base_axiom(facts[k])

\* C11 (amended): the base axioms are exactly the axioms F(args) fp= result
\* of the Facts of the ordinary Function, in list order; a diagnosis Fact
\* gets no base axiom.
C11_BaseAxiomsForOrdinaryFactsOnly ==
    (kb_pc \in {"axioms", "checked"}) =>
        /\ base_axioms =
              [k \in 1..Len(ordinary_facts) |->
                  FactAxiom("heart-rate", ordinary_facts[k].args, "fp=",
                            ordinary_facts[k].result)]
        /\ \A k \in 1..Len(diagnosis_facts) :
              ~has_base_axiom(diagnosis_facts[k])

C11_Witness ==
    /\ kb_pc = "axioms"
    /\ Len(ordinary_facts) = 2
    /\ Len(diagnosis_facts) = 3
    /\ Len(base_axioms) = 2

(***************************************************************************)
(* utils.py: convert_epochal_to_str and convert_date_to_epochal. Date text *)
(* is a sequence of characters.                                            *)
(***************************************************************************)
DayRadius == 40     \* epochal days -DayRadius..DayRadius are converted

\* core.py 810: the birth date "1950-1-1" as a day number, and the day the
\* docstring of utils.py 326 converts.
birth_day == -7305
docstring_day == 17167

Days == (-DayRadius..DayRadius) \cup {birth_day, docstring_day, hr_date1}

KBIdle ==
    /\ nargs = 1
    /\ facts = <<>>
    /\ kb_pc = "facts"
    /\ axioms = <<>>
    /\ answers = <<>>
    /\ valid = <<>>

DigitChars == <<"0", "1", "2", "3", "4", "5", "6", "7", "8", "9">>

\* The proleptic Gregorian calendar of datetime: the date of a day number
\* counted from 1970-01-01 ...
date_of_day(day) ==
    LET z == day + 719468
        era == z \div 146097
        doe == z - era * 146097
        yoe == (doe - doe \div 1460 + doe \div 36524 - doe \div 146096) \div 365
        doy == doe - (365 * yoe + yoe \div 4 - yoe \div 100)
        mp == (5 * doy + 2) \div 153
        m == IF mp < 10 THEN mp + 3 ELSE mp - 9
    IN  [year |-> yoe + era * 400 + (IF m <= 2 THEN 1 ELSE 0),
         month |-> m,
         day |-> doy - (153 * mp + 2) \div 5 + 1]

\* ... and the day number of a date.
day_of_date(dt) ==
    LET y == dt.year - (IF dt.month <= 2 THEN 1 ELSE 0)
        era == y \div 400
        yoe == y - era * 400
        mp == IF dt.month > 2 THEN dt.month - 3 ELSE dt.month + 9
        doy == (153 * mp + 2) \div 5 + dt.day - 1
        doe == yoe * 365 + yoe \div 4 - yoe \div 100 + doy
    IN  era * 146097 + doe - 719468

\* strftime("%Y") / ("%m") / ("%d"): decimal digits, zero padded to width.
RECURSIVE zero_padded(_, _)
zero_padded(n, width) ==
    IF width = 0 THEN <<>>
    ELSE Append(zero_padded(n \div 10, width - 1), DigitChars[(n % 10) + 1])

strftime(dt) ==
    zero_padded(dt.year, 4) \o <<"-">> \o zero_padded(dt.month, 2)
        \o <<"-">> \o zero_padded(dt.day, 2)

\* strptime("%Y-%m-%d"): the three decimal fields between the dashes.
digit_value(c) == CHOOSE v \in 0..9 : DigitChars[v + 1] = c

RECURSIVE decimal(_)
decimal(cs) ==
    IF Len(cs) = 0 THEN 0
    ELSE 10 * decimal(SubSeq(cs, 1, Len(cs) - 1)) + digit_value(cs[Len(cs)])

dash_positions(cs) == {k \in 1..Len(cs) : cs[k] = "-"}

strptime(cs) ==
    LET d1 == MinOf(dash_positions(cs))
        d2 == MaxOf(dash_positions(cs))
    IN  [year |-> decimal(SubSeq(cs, 1, d1 - 1)),
         month |-> decimal(SubSeq(cs, d1 + 1, d2 - 1)),
         day |-> decimal(SubSeq(cs, d2 + 1, Len(cs)))]

\* int(x / k) of Python: the quotient truncated toward zero.
int_div(x, k) == IF x >= 0 THEN x \div k ELSE -((-x) \div k)

seconds_per_day == 86400
noon == 43200

\* utils.py 346-359
convert_epochal_to_str(day) ==
    strftime(date_of_day((day * seconds_per_day) \div seconds_per_day))

\* utils.py 322-344: the timestamp of 12:00:00 UTC on the date, divided by
\* the seconds of a day.
convert_date_to_epochal(cs) ==
    int_div(day_of_date(strptime(cs)) * seconds_per_day + noon,
            seconds_per_day)

ConvertEpochalToStr ==
    /\ date_pc = "start"
    /\ date_string' = convert_epochal_to_str(epochal_date)
    /\ date_pc' = "str"
    /\ UNCHANGED <<checkVars, kbVars, raceVars, streamVars, procVars,
                   chatVars, ctxVars, parseVars, compVars, epochal_date,
                   epochal_back>>

ConvertDateToEpochal ==
    /\ date_pc = "str"
    /\ epochal_back' = convert_date_to_epochal(date_string)
    /\ date_pc' = "back"
    /\ UNCHANGED <<checkVars, kbVars, raceVars, streamVars, procVars,
                   chatVars, ctxVars, parseVars, compVars, epochal_date,
                   date_string>>

DateInit ==
    /\ CheckIdle
    /\ KBIdle
    /\ RaceIdle
    /\ StreamIdle
    /\ ProcIdle
    /\ ChatIdle
    /\ CtxIdle
    /\ ParseIdle
    /\ CompIdle
    /\ epochal_date \in Days
    /\ date_string = <<>>
    /\ epochal_back = 0
    /\ date_pc = "start"

DateNext == ConvertEpochalToStr \/ ConvertDateToEpochal

SpecDate == DateInit /\ [][DateNext]_vars

\* C12: converting an epochal day to date text and back yields the day
\* again, for every integer day, the days before 1970-01-01 included.
C12_RoundTrip ==
    (date_pc = "back") => (epochal_back = epochal_date)

\* The round trip does hold from 1970-01-01 on.
C12_RoundTripFromEpoch ==
    (date_pc = "back" /\ epochal_date >= 0) => (epochal_back = epochal_date)

\* Before 1970-01-01 the round trip returns the following day.
C12_RoundTripBeforeEpoch ==
    (date_pc = "back" /\ epochal_date < 0)
        => (epochal_back = epochal_date + 1)

(***************************************************************************)
(* utils.py: parse_sexpr_from_str. A token is an atom (a sequence of       *)
(* characters) and a list is a sequence of items.                          *)
(***************************************************************************)
MaxLen == 5         \* length of the text handed to the parser

QUOTE == "\""
BACKSLASH == "\\"
OPEN == "("
CLOSE == ")"
SPACE == " "

Chars == {OPEN, CLOSE, SPACE, QUOTE, BACKSLASH, "a"}

Texts == UNION {[1..n -> Chars] : n \in 0..MaxLen}

\* utils.py 248
whitespace == {SPACE}

Atom(chars) == [kind |-> "atom", chars |-> chars, items |-> <<>>]
List(items) == [kind |-> "list", chars |-> <<>>, items |-> items]

\* str.strip()
RECURSIVE lstrip(_)
lstrip(cs) ==
    IF Len(cs) > 0 /\ cs[1] \in whitespace THEN lstrip(Tail(cs)) ELSE cs

RECURSIVE rstrip(_)
rstrip(cs) ==
    IF Len(cs) > 0 /\ cs[Len(cs)] \in whitespace
    THEN rstrip(SubSeq(cs, 1, Len(cs) - 1)) ELSE cs

strip(cs) == rstrip(lstrip(cs))

\* utils.py 249-269: the quoted branch, from the character after the
\* opening quote; the result is the position reached and the token.
RECURSIVE scan_quoted(_, _, _)
scan_quoted(cs, i, token) ==
    IF i <= Len(cs) /\ cs[i] # QUOTE
    THEN IF cs[i] = BACKSLASH /\ i + 1 <= Len(cs)
         THEN IF cs[i + 1] = QUOTE
              THEN scan_quoted(cs, i + 2, Append(token, QUOTE))
              ELSE scan_quoted(cs, i + 2, token \o <<cs[i], cs[i + 1]>>)
         ELSE scan_quoted(cs, i + 1, Append(token, cs[i]))
    ELSE [idx |-> i, token |-> token]

\* utils.py 272-273: the first position from i holding whitespace or ")".
RECURSIVE scan_plain(_, _)
scan_plain(cs, i) ==
    IF i <= Len(cs) /\ cs[i] \notin (whitespace \cup {CLOSE})
    THEN scan_plain(cs, i + 1) ELSE i

\* utils.py 278-282: every leading "(" opens a new list.
RECURSIVE push_opens(_, _)
push_opens(token, ctx) ==
    IF Len(token) > 0 /\ token[1] = OPEN
    THEN push_opens(Tail(token), Append(ctx, <<>>))
    ELSE [token |-> token, context |-> ctx, raised |-> FALSE]

\* utils.py 283-288: every leading ")" closes the list on top of the stack
\* and appends it to the list below; context[-1] of an empty stack raises
\* IndexError.
RECURSIVE pop_closes(_, _)
pop_closes(token, ctx) ==
    IF Len(token) > 0 /\ token[1] = CLOSE
    THEN IF Len(ctx) <= 1
         THEN [token |-> token, context |-> <<>>, raised |-> TRUE]
         ELSE LET x == ctx[Len(ctx)]
                  below == ctx[Len(ctx) - 1]
                  popped == SubSeq(ctx, 1, Len(ctx) - 2)
              IN  pop_closes(Tail(token),
                             Append(popped, Append(below, List(x))))
    ELSE [token |-> token, context |-> ctx, raised |-> FALSE]

\* steps back two characters for a trailing ")"
drop_closes_two_back(token, n) ==
    IF Len(token) > 0 /\ token[Len(token)] = CLOSE
    THEN [token |-> SubSeq(token, 1, Len(token) - 1), dropped |-> n + 2]
    ELSE [token |-> token, dropped |-> n]

\* utils.py 289-292: the trailing ")" are left for the next call.
RECURSIVE drop_closes(_, _)
drop_closes(token, n) ==
    IF Len(token) > 0 /\ token[Len(token)] = CLOSE
    THEN drop_closes(SubSeq(token, 1, Len(token) - 1), n + 1)
    ELSE [token |-> token, dropped |-> n]

\* utils.py 298-299
append_token(ctx, token) ==
    IF Len(token) > 0
    THEN [ctx EXCEPT ![Len(ctx)] = Append(@, Atom(token))]
    ELSE ctx

\* utils.py 241-302: one call of scan_to_end_of_token.
scan_to_end_of_token(cs, i, ctx) ==
    IF cs[i] = QUOTE
    THEN LET q == scan_quoted(cs, i + 1, <<>>)
         IN  IF q.idx > Len(cs)
             THEN [idx |-> q.idx, context |-> ctx, raised |-> FALSE]
             ELSE [idx |-> q.idx + 1, context |-> append_token(ctx, q.token),
                   raised |-> FALSE]
    ELSE LET stop == scan_plain(cs, i)
         IN  IF stop > Len(cs)
             THEN [idx |-> stop,
                   context |-> append_token(ctx, SubSeq(cs, i, Len(cs))),
                   raised |-> FALSE]
             ELSE LET opened == push_opens(SubSeq(cs, i, stop), ctx)
                      closed == pop_closes(opened.token, opened.context)
                      rest == drop_closes(closed.token, 0)
                  IN  IF closed.raised
                      THEN [idx |-> stop, context |-> <<>>, raised |-> TRUE]
                      ELSE [idx |-> stop - rest.dropped + 1,
                            context |-> append_token(closed.context,
                                                     strip(rest.token)),
                            raised |-> FALSE]

\* utils.py 237-240
ParseStart ==
    /\ parse_pc = "start"
    /\ sexpr' = strip(sexpr)
    /\ idx' = 1
    /\ context' = << <<>> >>
    /\ parse_pc' = "scanning"
    /\ UNCHANGED <<checkVars, kbVars, raceVars, streamVars, procVars,
                   chatVars, ctxVars, dateVars, compVars, parse_rv>>

\* utils.py 308-311: one turn of the loop.
ScanToken ==
    /\ parse_pc = "scanning"
    /\ idx <= Len(sexpr)
    /\ LET r == scan_to_end_of_token(sexpr, idx, context)
       IN  /\ idx' = r.idx
           /\ context' = r.context
           /\ parse_pc' = IF r.raised THEN "raised" ELSE "scanning"
    /\ UNCHANGED <<checkVars, kbVars, raceVars, streamVars, procVars,
                   chatVars, ctxVars, dateVars, compVars, sexpr, parse_rv>>

\* utils.py 314-319: context[0][0], or None on IndexError.
ParseReturn ==
    /\ parse_pc = "scanning"
    /\ idx > Len(sexpr)
    /\ parse_rv' = IF Len(context[1]) > 0 THEN context[1][1] ELSE NoTree
    /\ parse_pc' = "returned"
    /\ UNCHANGED <<checkVars, kbVars, raceVars, streamVars, procVars,
                   chatVars, ctxVars, dateVars, compVars, sexpr, idx,
                   context>>

ParseInit ==
    /\ CheckIdle
    /\ KBIdle
    /\ RaceIdle
    /\ StreamIdle
    /\ ProcIdle
    /\ ChatIdle
    /\ CtxIdle
    /\ DateIdle
    /\ CompIdle
    /\ sexpr \in Texts
    /\ idx = 1
    /\ context = << <<>> >>
    /\ parse_pc = "start"
    /\ parse_rv = NoTree

ParseNext == ParseStart \/ ScanToken \/ ParseReturn

SpecParse == ParseInit /\ [][ParseNext]_vars

(***************************************************************************)
(* Claims about parse_sexpr_from_str. The text is read a second time by a  *)
(* plain lexer: "(" and ")", quoted strings, and atoms (runs of other      *)
(* characters); whitespace separates.                                      *)
(***************************************************************************)
Tok(kind, chars, glued) == [kind |-> kind, chars |-> chars, glued |-> glued]

RECURSIVE atom_end(_, _)
atom_end(cs, i) ==
    IF i <= Len(cs) /\ cs[i] \notin (whitespace \cup {OPEN, CLOSE, QUOTE})
    THEN atom_end(cs, i + 1) ELSE i

\* glued: the token starts right after an atom or a string, with no
\* whitespace or parenthesis between them.
RECURSIVE lex(_, _, _, _)
lex(cs, i, toks, after_atom) ==
    IF i > Len(cs) THEN [unterminated |-> FALSE, toks |-> toks]
    ELSE IF cs[i] \in whitespace THEN lex(cs, i + 1, toks, FALSE)
    ELSE IF cs[i] = OPEN
         THEN lex(cs, i + 1, Append(toks, Tok("open", <<>>, after_atom)), FALSE)
    ELSE IF cs[i] = CLOSE
         THEN lex(cs, i + 1, Append(toks, Tok("close", <<>>, FALSE)), FALSE)
    ELSE IF cs[i] = QUOTE
         THEN LET q == scan_quoted(cs, i + 1, <<>>)
              IN  IF q.idx > Len(cs)
                  THEN [unterminated |-> TRUE, toks |-> toks]
                  ELSE lex(cs, q.idx + 1,
                           Append(toks, Tok("atom", q.token, after_atom)), TRUE)
    ELSE LET e == atom_end(cs, i)
         IN  lex(cs, e, Append(toks, Tok("atom", SubSeq(cs, i, e - 1),
                                         after_atom)), TRUE)

tokens_of(cs) == lex(cs, 1, <<>>, FALSE)

\* Opening minus closing parentheses among the first n tokens.
RECURSIVE depth_after(_, _)
depth_after(toks, n) ==
    IF n = 0 THEN 0
    ELSE depth_after(toks, n - 1)
         + (IF toks[n].kind = "open" THEN 1
            ELSE IF toks[n].kind = "close" THEN -1 ELSE 0)

unterminated_string(cs) == tokens_of(cs).unterminated

extra_close(cs) ==
    LET toks == tokens_of(cs).toks
    IN  \E n \in 1..Len(toks) : depth_after(toks, n) < 0

missing_close(cs) ==
    LET toks == tokens_of(cs).toks
    IN  /\ ~extra_close(cs)
        /\ depth_after(toks, Len(toks)) > 0

malformed(cs) ==
    unterminated_string(cs) \/ extra_close(cs) \/ missing_close(cs)

\* One s-expression: balanced, strings terminated, tokens separated, and
\* the first form ends with the text.
well_formed(cs) ==
    LET toks == tokens_of(cs).toks
    IN  /\ ~malformed(cs)
        /\ Len(toks) > 0
        /\ \A n \in 1..Len(toks) : ~toks[n].glued
        /\ \A n \in 1..(Len(toks) - 1) : depth_after(toks, n) > 0

\* The tokens a tree stands for.
RECURSIVE tree_tokens(_)
RECURSIVE items_tokens(_)
tree_tokens(t) ==
    IF t.kind = "atom" THEN <<Tok("atom", t.chars, FALSE)>>
    ELSE <<Tok("open", <<>>, FALSE)>> \o items_tokens(t.items)
             \o <<Tok("close", <<>>, FALSE)>>

items_tokens(items) ==
    IF Len(items) = 0 THEN <<>>
    ELSE tree_tokens(items[1]) \o items_tokens(Tail(items))

parse_ended == parse_pc \in {"returned", "raised"}

\* C13: on a text with an unterminated string, a missing ")" or an extra
\* ")", parse_sexpr_from_str does not raise and returns None, not a tree.
C13_MalformedGivesNone ==
    (parse_ended /\ malformed(sexpr)) =>
        (parse_pc = "returned" /\ parse_rv = NoTree)

\* C14: on a well-formed text parse_sexpr_from_str returns the tree whose
\* lists mirror the parentheses and whose atoms are the tokens of the text
\* in order, a quoted string without its quotes.
C14_WellFormedGivesTree ==
    (parse_ended /\ well_formed(sexpr)) =>
        /\ parse_pc = "returned"
        /\ parse_rv # NoTree
        /\ tree_tokens(parse_rv) = tokens_of(sexpr).toks

\* A quoted string placed right after "(", and the empty quoted string.
string_after_open(cs) ==
    \E i \in 1..(Len(cs) - 1) : cs[i] = OPEN /\ cs[i + 1] = QUOTE

empty_string(cs) ==
    LET toks == tokens_of(cs).toks
    IN  \E n \in 1..Len(toks) : toks[n].kind = "atom" /\ toks[n].chars = <<>>

\* Apart from those two cases the tree of C14 is the one returned.
C14_TreeUnlessStringAfterOpen ==
    (~string_after_open(sexpr) /\ ~empty_string(sexpr))
        => C14_WellFormedGivesTree

(***************************************************************************)
(* core.py: the term compiler, Solver.sexpr_to_term and                    *)
(* Solver._convert_literal_to_term. Names and literals are sequences of    *)
(* characters; a Term is its kind, its sort, its symbol and its children.  *)
(***************************************************************************)
MaxUpper == 2       \* upper-case letters in a spelling of a sentinel token

Term(kind, sort, sym, kids) ==
    [kind |-> kind, sort |-> sort, sym |-> sym, kids |-> kids]

LowerCase == <<"a", "b", "c", "d", "e", "f", "g", "h", "i", "j", "k", "l", "m",
               "n", "o", "p", "q", "r", "s", "t", "u", "v", "w", "x", "y", "z">>
UpperCase == <<"A", "B", "C", "D", "E", "F", "G", "H", "I", "J", "K", "L", "M",
               "N", "O", "P", "Q", "R", "S", "T", "U", "V", "W", "X", "Y", "Z">>

is_upper(c) == \E k \in 1..Len(UpperCase) : UpperCase[k] = c
is_lower(c) == \E k \in 1..Len(LowerCase) : LowerCase[k] = c

lower_char(c) ==
    IF is_upper(c)
    THEN LowerCase[CHOOSE k \in 1..Len(UpperCase) : UpperCase[k] = c]
    ELSE c

upper_char(c) ==
    IF is_lower(c)
    THEN UpperCase[CHOOSE k \in 1..Len(LowerCase) : LowerCase[k] = c]
    ELSE c

\* str.lower()
lower(cs) == [k \in 1..Len(cs) |-> lower_char(cs[k])]

\* The names the compiler knows.
w_tfu_true == <<"t", "f", "u", "_", "t", "r", "u", "e">>
w_tfu_false == <<"t", "f", "u", "_", "f", "a", "l", "s", "e">>
w_tfu_true_or_false ==
    <<"t", "f", "u", "_", "t", "r", "u", "e", "_", "o", "r", "_",
      "f", "a", "l", "s", "e">>
w_true == <<"t", "r", "u", "e">>
w_false == <<"f", "a", "l", "s", "e">>
w_nan == <<"n", "a", "n">>
w_NaN == <<"N", "a", "N">>
w_age == <<"a", "g", "e">>
w_birth_date == <<"b", "i", "r", "t", "h", "-", "d", "a", "t", "e">>
w_heart_rate == <<"h", "e", "a", "r", "t", "-", "r", "a", "t", "e">>
w_D == <<"D">>
w_Int == <<"I", "n", "t">>
w_FP == <<"F", "P">>
w_eq == <<"=">>
w_fp_eq == <<"f", "p", "=">>
w_gt == <<">">>
w_not == <<"n", "o", "t">>
w_forall == <<"f", "o", "r", "a", "l", "l">>
w_exists == <<"e", "x", "i", "s", "t", "s">>

\* core.py 32-58
SUPPORTED_KINDS ==
    {<<w_fp_eq, "FLOATINGPOINT_EQ">>, <<w_eq, "EQUAL">>, <<w_not, "NOT">>,
     <<w_gt, "GT">>, <<w_forall, "FORALL">>, <<w_exists, "EXISTS">>}

supported(name) == \E e \in SUPPORTED_KINDS : e[1] = name

kind_of(name) == (CHOOSE e \in SUPPORTED_KINDS : e[1] = name)[2]

\* core.py 813-836: the registered Functions, self.all_functions.
Function(name, return_sort, n) ==
    [name |-> name, return_sort |-> return_sort, nargs |-> n]

registered_functions ==
    << Function(w_birth_date, "Int", 0), Function(w_age, "FP", 0),
       Function(w_heart_rate, "FP", 1), Function(w_D, "TFU", 2) >>

\* core.py 79-86: a Function's constant has the return sort when the
\* Function has no argument and a function sort otherwise.
cvc5_const(f) ==
    Term("CONSTANT", IF f.nargs = 0 THEN f.return_sort ELSE "Function",
         f.name, <<>>)

\* core.py 554
in_funcs_hash(name) ==
    \E k \in 1..Len(registered_functions) : registered_functions[k].name = name

funcs_hash(name) ==
    registered_functions[
        MaxOf({k \in 1..Len(registered_functions) :
                  registered_functions[k].name = name})]

Digits == {DigitChars[k] : k \in 1..Len(DigitChars)}

\* int(x) succeeds: an optional sign and decimal digits.
int_text(cs) ==
    LET body == IF Len(cs) > 0 /\ cs[1] \in {"-", "+"} THEN Tail(cs) ELSE cs
    IN  Len(body) > 0 /\ \A k \in 1..Len(body) : body[k] \in Digits

has_dot(cs) == \E k \in 1..Len(cs) : cs[k] = "."

\* float(x) succeeds, for a text with a ".": an optional sign, digits and
\* one ".".
float_text(cs) ==
    LET body == IF Len(cs) > 0 /\ cs[1] \in {"-", "+"} THEN Tail(cs) ELSE cs
    IN  /\ Cardinality({k \in 1..Len(body) : body[k] = "."}) = 1
        /\ \E k \in 1..Len(body) : body[k] \in Digits
        /\ \A k \in 1..Len(body) : body[k] \in Digits \cup {"."}

\* core.py 632-643: the comparison that recognises a sentinel token; only
\* the NaN token is compared through lower().
any_case_sentinel(x, word) == lower(x) = lower(word)

is_sentinel(x, word) == IF word = w_nan THEN lower(x) = word ELSE x = word

\* core.py 666-674, no known_sort: the text is no number, so it becomes a
\* string constant.
literal_fallback_raises(x) == [raised |-> TRUE, term |-> NoTerm]

literal_fallback(x) ==
    [raised |-> FALSE, term |-> Term("CONST_STRING", "String", x, <<>>)]

\* core.py 644-646: the most recent variable of that name.
variable_named(x, variables) ==
    variables[MaxOf({k \in 1..Len(variables) : variables[k].sym = x})]

\* core.py 620-674, called without known_sort.
convert_literal_to_term(x, variables) ==
    IF is_sentinel(x, w_tfu_true)
    THEN [raised |-> FALSE,
          term |-> Term("APPLY_CONSTRUCTOR", "TFU", w_tfu_true, <<>>)]
    ELSE IF is_sentinel(x, w_tfu_false)
    THEN [raised |-> FALSE,
          term |-> Term("APPLY_CONSTRUCTOR", "TFU", w_tfu_false, <<>>)]
    ELSE IF is_sentinel(x, w_tfu_true_or_false)
    THEN [raised |-> FALSE,
          term |-> Term("APPLY_CONSTRUCTOR", "TFU", w_tfu_true_or_false, <<>>)]
    ELSE IF is_sentinel(x, w_true)
    THEN [raised |-> FALSE, term |-> Term("CONST_BOOLEAN", "Bool", w_true, <<>>)]
    ELSE IF is_sentinel(x, w_false)
    THEN [raised |-> FALSE, term |-> Term("CONST_BOOLEAN", "Bool", w_false, <<>>)]
    ELSE IF is_sentinel(x, w_nan)
    THEN [raised |-> FALSE,
          term |-> Term("CONST_FLOATINGPOINT", "FP", w_NaN, <<>>)]
    ELSE IF \E k \in 1..Len(variables) : variables[k].sym = x
    THEN [raised |-> FALSE, term |-> variable_named(x, variables)]
    ELSE IF in_funcs_hash(x) /\ funcs_hash(x).nargs = 1
    THEN [raised |-> FALSE, term |-> cvc5_const(funcs_hash(x))]
    ELSE IF has_dot(x)
         THEN IF float_text(x)
              THEN [raised |-> FALSE,
                    term |-> Term("CONST_FLOATINGPOINT", "FP", x, <<>>)]
              ELSE literal_fallback(x)
         ELSE IF int_text(x)
              THEN [raised |-> FALSE,
                    term |-> Term("CONST_INTEGER", "Int", x, <<>>)]
              ELSE literal_fallback(x)

\* core.py 568-575: mk_var(*var) for one entry of a quantifier's variable
\* list; anything but (name Int) or (name FP) raises.
mk_var(var) ==
    IF /\ var.kind = "list"
       /\ Len(var.items) = 2
       /\ var.items[1].kind = "atom"
       /\ var.items[2].kind = "atom"
       /\ var.items[2].chars \in {w_Int, w_FP}
    THEN [raised |-> FALSE,
          term |-> Term("VARIABLE",
                        IF var.items[2].chars = w_Int THEN "Int" ELSE "FP",
                        var.items[1].chars, <<>>)]
    ELSE [raised |-> TRUE, term |-> NoTerm]

new_variables(varlist) ==
    IF varlist.kind = "list"
    THEN [raised |-> \E k \in 1..Len(varlist.items) :
                         mk_var(varlist.items[k]).raised,
          terms |-> [k \in 1..Len(varlist.items) |->
                        mk_var(varlist.items[k]).term]]
    ELSE [raised |-> TRUE, terms |-> <<>>]

\* Solver.mkReal(float(n))
mkReal(t) == Term("CONST_RATIONAL", "Real", t.sym, <<>>)

is_int_literal(t) == t.kind = "CONST_INTEGER" /\ t.sort = "Int"

is_fp_constant(t) == t.kind = "CONSTANT" /\ t.sort = "FP"

\* core.py 587-603: the operands of an EQUAL after the coercion.
coerce_equal(children) ==
    LET first == IF is_int_literal(children[1]) /\ is_fp_constant(children[2])
                 THEN [children EXCEPT ![1] = mkReal(children[1])]
                 ELSE children
    IN  IF is_fp_constant(first[1]) /\ is_int_literal(first[2])
        THEN [first EXCEPT ![2] = mkReal(first[2])]
        ELSE first

\* core.py 541-611. The result is [raised, term].
RECURSIVE sexpr_to_term(_, _)
RECURSIVE compile_children(_, _)
sexpr_to_term(sx, variables) ==
    IF sx.kind = "atom"
    THEN IF in_funcs_hash(sx.chars)
         THEN [raised |-> FALSE, term |-> cvc5_const(funcs_hash(sx.chars))]
         ELSE convert_literal_to_term(sx.chars, variables)
    ELSE IF Len(sx.items) = 0 \/ sx.items[1].kind = "list"
    THEN [raised |-> TRUE, term |-> NoTerm]
    ELSE IF in_funcs_hash(sx.items[1].chars)
    THEN LET children == compile_children(Tail(sx.items), variables)
         IN  IF children.raised
             THEN [raised |-> TRUE, term |-> NoTerm]
             ELSE [raised |-> FALSE,
                   term |-> Term("APPLY_UF", "?", <<>>,
                                 <<cvc5_const(funcs_hash(sx.items[1].chars))>>
                                     \o children.terms)]
    ELSE IF ~supported(lower(sx.items[1].chars))
    THEN [raised |-> TRUE, term |-> NoTerm]
    ELSE LET kind == kind_of(lower(sx.items[1].chars))
         IN  IF kind \in {"FORALL", "EXISTS"}
             THEN IF Len(sx.items) < 3 \/ new_variables(sx.items[2]).raised
                  THEN [raised |-> TRUE, term |-> NoTerm]
                  ELSE LET nv == new_variables(sx.items[2]).terms
                           body == sexpr_to_term(sx.items[3], variables \o nv)
                       IN  IF body.raised
                           THEN [raised |-> TRUE, term |-> NoTerm]
                           ELSE [raised |-> FALSE,
                                 term |-> Term(kind, "Bool", <<>>,
                                     <<Term("VARIABLE_LIST", "?", <<>>, nv),
                                       body.term>>)]
             ELSE LET children == compile_children(Tail(sx.items), variables)
                  IN  IF children.raised
                      THEN [raised |-> TRUE, term |-> NoTerm]
                      ELSE IF kind = "EQUAL"
                      THEN IF Len(children.terms) < 2
                           THEN [raised |-> TRUE, term |-> NoTerm]
                           ELSE [raised |-> FALSE,
                                 term |-> Term(kind, "Bool", <<>>,
                                               coerce_equal(children.terms))]
                      ELSE [raised |-> FALSE,
                            term |-> Term(kind, "?", <<>>, children.terms)]

compile_children(items, variables) ==
    IF Len(items) = 0 THEN [raised |-> FALSE, terms |-> <<>>]
    ELSE LET first == sexpr_to_term(items[1], variables)
             rest == compile_children(Tail(items), variables)
         IN  IF first.raised \/ rest.raised
             THEN [raised |-> TRUE, terms |-> <<>>]
             ELSE [raised |-> FALSE, terms |-> <<first.term>> \o rest.terms]

\* The s-expressions handed to the compiler.
SentinelWords ==
    {w_tfu_true, w_tfu_false, w_tfu_true_or_false, w_true, w_false, w_nan}

RECURSIVE spellings(_, _)
spellings(word, n) ==
    IF Len(word) = 0 THEN {<<>>}
    ELSE {<<word[1]>> \o r : r \in spellings(Tail(word), n)}
         \cup (IF n > 0 /\ is_lower(word[1])
               THEN {<<upper_char(word[1])>> \o r :
                        r \in spellings(Tail(word), n - 1)}
               ELSE {})

upper(cs) == [k \in 1..Len(cs) |-> upper_char(cs[k])]

SentinelSpellings ==
    UNION {spellings(w, MaxUpper) \cup {upper(w)} : w \in SentinelWords}

w_t == <<"t">>
w_foo == <<"f", "o", "o">>
w_E11 == <<"E", "1", "1">>
w_72 == <<"7", "2">>
w_55_0 == <<"5", "5", ".", "0">>
w_Real == <<"R", "e", "a", "l">>

PlainAtoms ==
    {w_age, w_birth_date, w_heart_rate, w_D, w_t, w_foo, w_E11, w_72, w_55_0,
     <<"1", ".", "5", ".", "2">>, <<"-", "3">>}

Operands == {w_age, w_birth_date, w_72, w_55_0, w_foo}

var_list(v, srt) == List(<<List(<<Atom(v), Atom(srt)>>)>>)

Bodies(v) ==
    {Atom(v), List(<<Atom(w_eq), Atom(v), Atom(w_72)>>),
     List(<<Atom(w_exists), var_list(v, w_FP), Atom(v)>>)}

quantified(q, v, srt, body) == List(<<Atom(q), var_list(v, srt), body>>)

\* Quantifiers that bind one name twice, and uses of the name beside or
\* after a quantifier that binds it.
ScopeInputs ==
    UNION {
        {quantified(w_forall, v, s1,
            List(<<Atom(w_eq), quantified(w_exists, v, s2, Atom(v)), Atom(v)>>)),
         quantified(w_exists, v, s1,
            List(<<Atom(w_eq), Atom(v), quantified(w_forall, v, s2, Atom(v))>>)),
         List(<<Atom(w_eq), quantified(w_exists, v, s1, Atom(v)), Atom(v)>>),
         List(<<Atom(w_eq), Atom(v), quantified(w_forall, v, s1, Atom(v))>>)} :
        v \in {w_t, w_age, w_true}, s1 \in {w_Int, w_FP}, s2 \in {w_Int, w_FP}}

CompileInputs ==
    {Atom(a) : a \in SentinelSpellings \cup PlainAtoms}
    \cup ScopeInputs
    \cup {List(<<Atom(op), Atom(a), Atom(b)>>) :
             op \in {w_eq, w_fp_eq, w_foo}, a \in Operands, b \in Operands}
    \cup {List(<<Atom(q), var_list(v[1], srt), v[2]>>) :
             q \in {w_forall, w_exists, upper(w_forall)},
             v \in {<<n, b>> : n \in {w_age, w_t}, b \in Bodies(w_age) \cup Bodies(w_t)},
             srt \in {w_Int, w_FP, w_Real}}
    \cup {List(<<>>),
          List(<<List(<<Atom(w_age)>>), Atom(w_72)>>),
          List(<<Atom(w_heart_rate), Atom(w_72)>>),
          List(<<Atom(w_heart_rate), Atom(w_foo)>>),
          List(<<Atom(w_not), List(<<Atom(w_foo), Atom(w_72)>>)>>),
          List(<<Atom(w_not), Atom(w_foo)>>),
          List(<<Atom(w_eq), Atom(w_age)>>),
          List(<<Atom(w_forall), Atom(w_t), Atom(w_t)>>)}

\* Solver.sexpr_to_term(sexpr), core.py 541-611
Compile ==
    /\ comp_pc = "start"
    /\ LET r == sexpr_to_term(comp_sexpr, <<>>)
       IN  /\ comp_pc' = IF r.raised THEN "raised" ELSE "compiled"
           /\ comp_rv' = r.term
    /\ UNCHANGED <<checkVars, kbVars, raceVars, streamVars, procVars,
                   chatVars, ctxVars, dateVars, parseVars, comp_sexpr>>

CompileInit ==
    /\ CheckIdle
    /\ KBIdle
    /\ RaceIdle
    /\ StreamIdle
    /\ ProcIdle
    /\ ChatIdle
    /\ CtxIdle
    /\ DateIdle
    /\ ParseIdle
    /\ comp_sexpr \in CompileInputs
    /\ comp_pc = "start"
    /\ comp_rv = NoTerm

CompileNext == Compile

SpecCompile == CompileInit /\ [][CompileNext]_vars

(***************************************************************************)
(* Claims about the term compiler.                                         *)
(***************************************************************************)
compile_ended == comp_pc \in {"compiled", "raised"}

is_quantifier(sx) ==
    /\ sx.kind = "list"
    /\ Len(sx.items) = 3
    /\ sx.items[1].kind = "atom"
    /\ lower(sx.items[1].chars) \in {w_forall, w_exists}

\* (forall ((v S)) v) or (exists ((v S)) v), S one of Int and FP.
binds_its_body(sx) ==
    /\ is_quantifier(sx)
    /\ sx.items[3].kind = "atom"
    /\ \E srt \in {w_Int, w_FP} :
          sx.items[2] = var_list(sx.items[3].chars, srt)

\* C15: an atom bound by an enclosing quantifier compiles to the bound
\* variable, also when a Function of that name is registered.
C15_BoundVariableFirst ==
    (compile_ended /\ binds_its_body(comp_sexpr)) =>
        /\ comp_pc = "compiled"
        /\ comp_rv.kids[2] = comp_rv.kids[1].kids[1]

\* It does when no Function has the name of the variable.
C15_BoundVariableUnlessFunction ==
    \/ binds_its_body(comp_sexpr) /\ in_funcs_hash(comp_sexpr.items[3].chars)
    \/ C15_BoundVariableFirst

any_case_of_sentinel(a) == lower(a) \in SentinelWords

\* An atom that is no sentinel in any spelling, no Function and no number.
unknown_atom(sx) ==
    /\ sx.kind = "atom"
    /\ ~any_case_of_sentinel(sx.chars)
    /\ ~in_funcs_hash(sx.chars)
    /\ ~int_text(sx.chars)
    /\ ~float_text(sx.chars)

\* A list whose head is neither a registered Function nor an operator.
unknown_head(sx) ==
    /\ sx.kind = "list"
    /\ \/ Len(sx.items) = 0
       \/ sx.items[1].kind = "list"
       \/ /\ ~in_funcs_hash(sx.items[1].chars)
          /\ ~supported(lower(sx.items[1].chars))

\* An operand of the outermost list has such a head.
operand_with_unknown_head(sx) ==
    /\ sx.kind = "list"
    /\ ~unknown_head(sx)
    /\ ~is_quantifier(sx)
    /\ \E k \in 2..Len(sx.items) : unknown_head(sx.items[k])

sentinel_constant(w) ==
    IF w \in {w_true, w_false} THEN Term("CONST_BOOLEAN", "Bool", w, <<>>)
    ELSE IF w = w_nan THEN Term("CONST_FLOATINGPOINT", "FP", w_NaN, <<>>)
    ELSE Term("APPLY_CONSTRUCTOR", "TFU", w, <<>>)

sentinel_spelling(sx) == sx.kind = "atom" /\ any_case_of_sentinel(sx.chars)

int_against_fp_constant(sx) ==
    /\ sx.kind = "list"
    /\ Len(sx.items) = 3
    /\ sx.items[1] = Atom(w_eq)
    /\ \E c \in {2, 3} :
          /\ sx.items[c].kind = "atom"
          /\ in_funcs_hash(sx.items[c].chars)
          /\ funcs_hash(sx.items[c].chars).nargs = 0
          /\ funcs_hash(sx.items[c].chars).return_sort = "FP"
          /\ sx.items[5 - c].kind = "atom"
          /\ int_text(sx.items[5 - c].chars)

\* C18: in such an equality the integer literal is replaced by a term of the
\* floating-point sort, so both operands have the floating-point sort.
C18_CoercedToFloatingPoint ==
    (compile_ended /\ int_against_fp_constant(comp_sexpr)) =>
        /\ comp_pc = "compiled"
        /\ comp_rv.kids[1].sort = "FP"
        /\ comp_rv.kids[2].sort = "FP"

(***************************************************************************)
(* The life of a Solver context: created by create_solver_and_check_sat    *)
(* (core.py 888-926) or by the context manager solver() (core.py 857-860,  *)
(* used by interface.py 57-58 and 70-74), let go of when the function that *)
(* holds it ends, finalized by Solver.__del__ and then released.           *)
(***************************************************************************)
MaxTerms == 3       \* terms (variables) one step adds to a registry

\* core.py 813-836: generate_facts registers six Functions ...
functions_registered == 6
\* ... and makes the three tfu constants (core.py 481-488).
tfu_terms == 3

Entries == {"create_solver_and_check_sat", "solver"}

add_to(r, n) == Registry(r.is, r.n + n)

\* core.py 895 / 859: Solver(), with empty registries (core.py 403-405).
NewSolver ==
    /\ ctx_pc = "none"
    /\ ctx_pc' = "created"
    /\ registries' = [all_functions |-> Registry("list", 0),
                      all_terms |-> Registry("list", 0),
                      all_vars |-> Registry("list", 0)]
    /\ UNCHANGED <<checkVars, kbVars, raceVars, streamVars, procVars,
                   chatVars, dateVars, parseVars, compVars,
                   ctx_entry, ctx_raised>>

\* An exception leaves the function that holds the context: nothing more
\* of it runs.
raise_from(step) ==
    /\ ctx_pc' = "dropped"
    /\ ctx_raised' = step
    /\ UNCHANGED registries

\* core.py 897 / interface.py 58, 71
CtxGenerateFacts ==
    /\ ctx_pc = "created"
    /\ \/ /\ ctx_pc' = "facts"
          /\ registries' =
                [registries EXCEPT
                    !.all_functions = add_to(@, functions_registered),
                    !.all_terms = add_to(@, tfu_terms)]
          /\ UNCHANGED ctx_raised
       \/ raise_from("generate_facts")
    /\ UNCHANGED <<checkVars, kbVars, raceVars, streamVars, procVars,
                   chatVars, dateVars, parseVars, compVars, ctx_entry>>

\* core.py 903 / interface.py 72
CtxGenerateAxioms ==
    /\ ctx_pc = "facts"
    /\ \/ \E t \in 1..MaxTerms, v \in 1..MaxTerms :
             /\ ctx_pc' = "axioms"
             /\ registries' = [registries EXCEPT !.all_terms = add_to(@, t),
                                                 !.all_vars = add_to(@, v)]
             /\ UNCHANGED ctx_raised
       \/ raise_from("generate_all_axioms")
    /\ UNCHANGED <<checkVars, kbVars, raceVars, streamVars, procVars,
                   chatVars, dateVars, parseVars, compVars, ctx_entry>>

\* core.py 909
CtxCompile ==
    /\ ctx_entry = "create_solver_and_check_sat"
    /\ ctx_pc = "axioms"
    /\ \/ \E t \in 1..MaxTerms, v \in 0..1 :
             /\ ctx_pc' = "compiled"
             /\ registries' = [registries EXCEPT !.all_terms = add_to(@, t),
                                                 !.all_vars = add_to(@, v)]
             /\ UNCHANGED ctx_raised
       \/ raise_from("sexpr_str_to_term")
    /\ UNCHANGED <<checkVars, kbVars, raceVars, streamVars, procVars,
                   chatVars, dateVars, parseVars, compVars, ctx_entry>>

\* core.py 912-919
CtxCheckSat ==
    /\ ctx_entry = "create_solver_and_check_sat"
    /\ ctx_pc = "compiled"
    /\ \/ /\ ctx_pc' = "checked"
          /\ UNCHANGED <<registries, ctx_raised>>
       \/ raise_from("checkSat")
    /\ UNCHANGED <<checkVars, kbVars, raceVars, streamVars, procVars,
                   chatVars, dateVars, parseVars, compVars, ctx_entry>>

cleared_registries ==
    [all_functions |-> Registry("None", 0), all_terms |-> Registry("None", 0),
     all_vars |-> Registry("None", 0)]

\* core.py 920-925
CtxClearRegistries ==
    /\ ctx_entry = "create_solver_and_check_sat"
    /\ ctx_pc = "checked"
    /\ registries' = cleared_registries
    /\ ctx_pc' = "cleared"
    /\ UNCHANGED <<checkVars, kbVars, raceVars, streamVars, procVars,
                   chatVars, dateVars, parseVars, compVars,
                   ctx_entry, ctx_raised>>

\* core.py 926: the return ends the function that holds the context.
CtxReturn ==
    /\ ctx_entry = "create_solver_and_check_sat"
    /\ ctx_pc = "cleared"
    /\ ctx_pc' = "dropped"
    /\ UNCHANGED <<checkVars, kbVars, raceVars, streamVars, procVars,
                   chatVars, dateVars, parseVars, compVars,
                   ctx_entry, registries, ctx_raised>>

\* core.py 860 and the end of the with block (interface.py 58 / 73): the
\* generator has nothing after its yield, and the caller returns.
CtxExitWith ==
    /\ ctx_entry = "solver"
    /\ ctx_pc \in {"facts", "axioms"}
    /\ ctx_pc' = "dropped"
    /\ UNCHANGED <<checkVars, kbVars, raceVars, streamVars, procVars,
                   chatVars, dateVars, parseVars, compVars,
                   ctx_entry, registries, ctx_raised>>

\* core.py 439-443: Solver.__del__, run by the runtime when it collects the
\* context.
CtxDel ==
    /\ ctx_pc = "dropped"
    /\ registries' = [all_functions |-> Registry("list", 0),
                      all_terms |-> Registry("list", 0),
                      all_vars |-> Registry("list", 0)]
    /\ ctx_pc' = "finalized"
    /\ UNCHANGED <<checkVars, kbVars, raceVars, streamVars, procVars,
                   chatVars, dateVars, parseVars, compVars,
                   ctx_entry, ctx_raised>>

\* The engine object behind the context is freed.
CtxRelease ==
    /\ ctx_pc = "finalized"
    /\ ctx_pc' = "released"
    /\ UNCHANGED <<checkVars, kbVars, raceVars, streamVars, procVars,
                   chatVars, dateVars, parseVars, compVars,
                   ctx_entry, registries, ctx_raised>>

CtxInit ==
    /\ CheckIdle
    /\ KBIdle
    /\ RaceIdle
    /\ StreamIdle
    /\ ProcIdle
    /\ ChatIdle
    /\ DateIdle
    /\ ParseIdle
    /\ CompIdle
    /\ ctx_entry \in Entries
    /\ ctx_pc = "none"
    /\ registries = [all_functions |-> Registry("list", 0),
                     all_terms |-> Registry("list", 0),
                     all_vars |-> Registry("list", 0)]
    /\ ctx_raised = None

CtxNext ==
    \/ NewSolver \/ CtxGenerateFacts \/ CtxGenerateAxioms \/ CtxCompile
    \/ CtxCheckSat \/ CtxClearRegistries \/ CtxReturn \/ CtxExitWith
    \/ CtxDel \/ CtxRelease

SpecCtx == CtxInit /\ [][CtxNext]_vars

is_cleared(r) == r.is = "None" \/ r.n = 0

all_cleared ==
    /\ is_cleared(registries.all_functions)
    /\ is_cleared(registries.all_terms)
    /\ is_cleared(registries.all_vars)

\* C19: on every path - normal return of create_solver_and_check_sat, an
\* exception in fact or axiom generation, compilation or checkSat, exit
\* from solver() - the registries have been cleared by the time the code
\* lets go of the context.
C19_ClearedWhenLetGo ==
    (ctx_pc = "dropped") => all_cleared

\* They have on the normal return of create_solver_and_check_sat ...
C19_ClearedOnNormalReturn ==
    (/\ ctx_pc = "dropped"
     /\ ctx_entry = "create_solver_and_check_sat"
     /\ ctx_raised = None) => all_cleared

\* ... and on the other paths it is the finalizer that empties them.
C19_ClearedWhenReleased ==
    (ctx_pc = "released") => all_cleared

(***************************************************************************)
(* ChatService's conversation history                                      *)
(* (src/backend/app/services/chat_service.py 18-20, 194-216).              *)
(***************************************************************************)
MaxCalls == 12      \* calls of _update_conversation_context in one run

\* chat_service.py 203-204: the number of exchanges kept
context_limit == 10

Messages == {"Hello", "How are you?"}

\* the dict of chat_service.py 196-200
Exchange(user_message, assistant_response, timestamp) ==
    [user |-> user_message, assistant |-> assistant_response,
     timestamp |-> timestamp]

\* the assistant's answer to a message (chat_service.py 98, 115)
Responses == [m \in Messages |-> IF m = "Hello" THEN "Hi there!" ELSE "I'm good"]

\* keeps the first k elements instead of the last k
keep_first(s, k) == SubSeq(s, 1, IF k < Len(s) THEN k ELSE Len(s))

\* s[-k:] of Python: the last k elements, the whole list when it is shorter
keep_last(s, k) ==
    LET start == IF Len(s) - k > 0 THEN Len(s) - k ELSE 0
    IN  SubSeq(s, start + 1, Len(s))

\* chat_service.py 194-204
update_conversation_context(ctx, user_message, assistant_response, now) ==
    LET appended == Append(ctx, Exchange(user_message, assistant_response, now))
    IN  IF Len(appended) > context_limit
        THEN keep_last(appended, context_limit)
        ELSE appended

\* chat_service.py 206-208: one reading of the clock
get_current_timestamp == clock + 1

UpdateConversationContext ==
    /\ clock < MaxCalls
    /\ \E user_message \in Messages :
          LET e == Exchange(user_message, Responses[user_message],
                            get_current_timestamp)
          IN  /\ conversation_context' =
                    update_conversation_context(conversation_context,
                        user_message, Responses[user_message],
                        get_current_timestamp)
              /\ added' = Append(added, e)
    /\ clock' = get_current_timestamp
    /\ chat_op' = "_update_conversation_context"
    /\ UNCHANGED <<checkVars, kbVars, raceVars, streamVars, procVars,
                   dateVars, parseVars, compVars, ctxVars,
                   history>>

\* chat_service.py 210-212: a copy of the list
GetConversationHistory ==
    /\ history' = conversation_context
    /\ chat_op' = "get_conversation_history"
    /\ UNCHANGED <<checkVars, kbVars, raceVars, streamVars, procVars,
                   dateVars, parseVars, compVars, ctxVars,
                   conversation_context, added, clock>>

\* chat_service.py 214-216
ClearConversationHistory ==
    /\ conversation_context' = <<>>
    /\ added' = <<>>
    /\ chat_op' = "clear_conversation_history"
    /\ UNCHANGED <<checkVars, kbVars, raceVars, streamVars, procVars,
                   dateVars, parseVars, compVars, ctxVars,
                   clock, history>>

\* chat_service.py 18-20
ChatInit ==
    /\ CheckIdle
    /\ KBIdle
    /\ RaceIdle
    /\ StreamIdle
    /\ ProcIdle
    /\ DateIdle
    /\ ParseIdle
    /\ CompIdle
    /\ CtxIdle
    /\ conversation_context = <<>>
    /\ added = <<>>
    /\ clock = 0
    /\ history = <<>>
    /\ chat_op = "__init__"

ChatNext ==
    \/ UpdateConversationContext
    \/ GetConversationHistory
    \/ ClearConversationHistory

SpecChat == ChatInit /\ [][ChatNext]_vars

min(a, b) == IF a < b THEN a ELSE b

\* C20: after n calls of _update_conversation_context, interleaved with
\* get_conversation_history, the history holds exactly the last min(n, 10)
\* exchanges in the order they were added; it never has more than 10; what
\* get_conversation_history returns is that history; and
\* clear_conversation_history leaves it empty.
C20_LastTenInOrder ==
    LET n == Len(added)
        k == Len(conversation_context)
    IN  /\ k = min(n, 10)
        /\ k <= 10
        /\ \A i \in 1..k : conversation_context[i] = added[n - k + i]
        /\ (chat_op = "get_conversation_history")
                => history = conversation_context
        /\ (chat_op = "clear_conversation_history")
                => conversation_context = <<>>

\* more than ten exchanges were added and the history was then read
C20_Witness ==
    /\ Len(added) = MaxCalls
    /\ Len(added) > 10
    /\ chat_op = "get_conversation_history"
    /\ Len(history) = 10
    /\ history[1] = added[Len(added) - 9]
    /\ history[1] # added[1]

(***************************************************************************)
(* ChatService.process_message (chat_service.py 64-131) and its input      *)
(* validation (133-139).                                                   *)
(***************************************************************************)
MaxMessages == 2    \* calls of process_message in one run

\* chat_service.py 138: the longest message accepted, after stripping
max_message_length == 1000

ProcessInputs ==
    {Message(l, c, t) : l \in {0, 1, 3}, c \in {1, 999, 1000, 1001},
                        t \in {0, 2}}
    \cup {Message(l, 0, 0) : l \in {0, 1, 3}}

\* len(message)
message_len(m) == m.leading + m.core + m.trailing

\* message.strip()
message_strip(m) == Message(0, m.core, 0)

\* truth value of a str: it is not empty
truthy(m) == message_len(m) > 0

\* rejects the empty message only
validate_nonempty_only(m) ==
    IF ~truthy(m)
    THEN "VALIDATION_ERROR"
    ELSE IF message_len(message_strip(m)) > max_message_length
         THEN "VALIDATION_ERROR"
         ELSE None

\* chat_service.py 133-139: the error_code of the exception raised, or None
validate_message(m) ==
    IF ~truthy(m) \/ ~truthy(message_strip(m))
    THEN "VALIDATION_ERROR"
    ELSE IF message_len(message_strip(m)) > max_message_length
         THEN "VALIDATION_ERROR"
         ELSE None

\* what the body of the inner try does (chat_service.py 88-115)
ProverOutcomes == {"answered", "ImportError", "Exception"}

\* chat_service.py 120-131: ChatServiceError is re-raised as it is, any
\* other exception becomes ChatServiceError(..., "PROCESSING_ERROR", True)
error_code_raised(code) ==
    IF code \in {"VALIDATION_ERROR", "NETWORK_ERROR", "TIMEOUT_ERROR",
                 "SERVICE_UNAVAILABLE"}
    THEN code
    ELSE "PROCESSING_ERROR"

ProcessMessage ==
    /\ clock < MaxMessages
    /\ \E message \in ProcessInputs, outcome \in ProverOutcomes :
          /\ chat_message' = message
          /\ IF validate_message(message) # None
             THEN /\ chat_error' = error_code_raised(validate_message(message))
                  /\ chat_rv' = None
                  /\ UNCHANGED <<conversation_context, added, clock>>
             ELSE IF outcome = "Exception"
             THEN /\ chat_error' = error_code_raised("Exception")
                  /\ chat_rv' = None
                  /\ UNCHANGED <<conversation_context, added, clock>>
             ELSE LET response == IF outcome = "answered"
                                  THEN "assistant_response"
                                  ELSE "base_response"
                  IN  /\ conversation_context' =
                            update_conversation_context(conversation_context,
                                message, response, get_current_timestamp)
                      /\ added' = Append(added,
                            Exchange(message, response, get_current_timestamp))
                      /\ clock' = get_current_timestamp
                      /\ chat_error' = None
                      /\ chat_rv' = response
    /\ chat_op' = "process_message"
    /\ UNCHANGED <<checkVars, kbVars, raceVars, streamVars, dateVars,
                   parseVars, compVars, ctxVars,
                   history>>

ReadHistory ==
    /\ history' = conversation_context
    /\ chat_op' = "get_conversation_history"
    /\ UNCHANGED <<checkVars, kbVars, raceVars, streamVars, dateVars,
                   parseVars, compVars, ctxVars,
                   procVars, conversation_context, added, clock>>

ProcessInit ==
    /\ CheckIdle
    /\ KBIdle
    /\ RaceIdle
    /\ StreamIdle
    /\ DateIdle
    /\ ParseIdle
    /\ CompIdle
    /\ CtxIdle
    /\ ChatIdle
    /\ ProcIdle

ProcessNext == ProcessMessage \/ ReadHistory

SpecProcess == ProcessInit /\ [][ProcessNext]_vars

empty_message(m) == message_len(m) = 0
whitespace_only(m) == message_len(m) > 0 /\ m.core = 0
too_long(m) == m.core > 1000

rejected_input(m) == empty_message(m) \/ whitespace_only(m) \/ too_long(m)

\* C21: process_message called with an empty message, a whitespace-only
\* message or a message whose stripped length exceeds 1000 raises
\* ValidationError, not the PROCESSING_ERROR ChatServiceError, and leaves
\* the conversation history as it was.
C21_InvalidMessageRejected ==
    [][(chat_op' = "process_message" /\ rejected_input(chat_message'))
        => /\ chat_error' = "VALIDATION_ERROR"
           /\ chat_rv' = None
           /\ conversation_context' = conversation_context]_vars

\* a whitespace-only message was rejected while the history held exchanges
C21_Witness ==
    /\ chat_op = "process_message"
    /\ whitespace_only(chat_message)
    /\ chat_error = "VALIDATION_ERROR"
    /\ Len(conversation_context) > 0

(***************************************************************************)
(* The built-in knowledge base at diagnosis_date3 + delta.                 *)
(***************************************************************************)
\* core.py 849-854
builtin_diagnosis_facts ==
    << Fact("D", tfu_true, <<"E11", diagnosis_date1>>),
       Fact("D", tfu_false, <<"E11", diagnosis_date2>>),
       Fact("D", tfu_true, <<"E11", diagnosis_date3>>) >>

after_latest == diagnosis_date3 + delta

verdicts_after_latest(had, had_not, unknown) ==
    /\ valid[<<"E11", after_latest, tfu_true>>] = had
    /\ valid[<<"E11", after_latest, tfu_false>>] = had_not
    /\ valid[<<"E11", after_latest, tfu_true_or_false>>] = unknown

\* C23: with the built-in knowledge base, at diagnosis_date3 + delta the
\* statement that the patient had the diagnosis is judged "false", the
\* statement that the patient did not have it "true", and the statement
\* that the status is unknown "false".
C23_VerdictsAfterLatestFact ==
    (/\ kb_pc = "checked"
     /\ ordinary_facts = builtin_heart_rate_facts
     /\ diagnosis_facts = builtin_diagnosis_facts)
        => verdicts_after_latest("false", "true", "false")

\* What the code returns there: "true" for all three statements ...
C23_BuiltInVerdicts ==
    (/\ kb_pc = "checked"
     /\ ordinary_facts = builtin_heart_rate_facts
     /\ diagnosis_facts = builtin_diagnosis_facts)
        => verdicts_after_latest("true", "true", "true")

\* ... and, on the diagnosis Facts alone, the result of the latest Fact.
C23_VerdictsOfDiagnosisFactsAlone ==
    (/\ kb_pc = "checked"
     /\ ordinary_facts = <<>>
     /\ diagnosis_facts = builtin_diagnosis_facts)
        => verdicts_after_latest("true", "false", "false")

C23_BuiltInChecked ==
    /\ kb_pc = "checked"
    /\ ordinary_facts = builtin_heart_rate_facts
    /\ diagnosis_facts = builtin_diagnosis_facts

(***************************************************************************)
(* The time ranges of the interpolation step.                              *)
(***************************************************************************)
\* the integer times the ranges are examined at
TimesExamined == (diagnosis_date1 - delta)..(diagnosis_date3 + delta)

in_range(r, t) == t >= r.start /\ (r.bounded => t < r.stop)

before_first(icd, t) == t < MinOf(these_times_of(icd, facts))

ranges_holding(icd, t) ==
    {k \in 1..Len(all_ranges(icd, facts)) :
        in_range(all_ranges(icd, facts)[k], t)}

axioms_applying(icd, t) ==
    {k \in 1..3 :
        EvalTerm(diagnosis_axioms_for(icd, facts)[k].lhs, <<icd, t>>)}

generated_for(icd) ==
    \E j \in 1..Len(axioms) :
        /\ j + 2 <= Len(axioms)
        /\ SubSeq(axioms, j, j + 2) = diagnosis_axioms_for(icd, facts)

\* C24: for each observed discriminator value the ranges (-inf, t_min),
\* [t_i, t_{i+1}) and [t_last, +inf) are pairwise disjoint and cover every
\* time, so at every time exactly one of the three axioms generated for
\* that value (unknown / true / false) has a true left-hand side.
C24_ExactlyOneRange ==
    (kb_pc \in {"axioms", "checked"}) =>
        \A icd \in observed_icds(facts) :
            /\ generated_for(icd)
            /\ \A t \in TimesExamined :
                  /\ Cardinality(ranges_holding(icd, t))
                        = (IF before_first(icd, t) THEN 0 ELSE 1)
                  /\ Cardinality(axioms_applying(icd, t)) = 1

\* axioms were generated for the three built-in diagnosis Facts
C24_Witness ==
    /\ kb_pc = "axioms"
    /\ diagnosis_facts = builtin_diagnosis_facts
    /\ Len(all_ranges("E11", facts)) = 3

(***************************************************************************)
(* Scopes of the variables the term compiler's quantifiers introduce.      *)
(***************************************************************************)
\* (q ((v S1)) (= (q' ((v S2)) v) v)) or (q ((v S1)) (= v (q' ((v S2)) v)))
binds_twice(sx) ==
    /\ is_quantifier(sx)
    /\ sx \in ScopeInputs

\* (= (q ((v S)) v) v) or (= v (q ((v S)) v))
use_beside_binder(sx) ==
    /\ ~is_quantifier(sx)
    /\ sx \in ScopeInputs

\* of the two operands of an EQUAL, the quantifier and the plain use
quantifier_operand(eq) ==
    IF eq.kids[1].kind \in {"FORALL", "EXISTS"} THEN eq.kids[1] ELSE eq.kids[2]

plain_operand(eq) ==
    IF eq.kids[1].kind \in {"FORALL", "EXISTS"} THEN eq.kids[2] ELSE eq.kids[1]

bound_variable(q) == q.kids[1].kids[1]

\* the names the compiler looks up before the variables in scope
taken_names ==
    {registered_functions[k].name : k \in 1..Len(registered_functions)}
    \cup {w \in SentinelWords : TRUE}

binds_taken_name(sx) ==
    \E name \in taken_names, s1 \in {w_Int, w_FP} :
        /\ sx.kind = "list"
        /\ Len(sx.items) = 3
        /\ \/ sx.items[2] = var_list(name, s1)
           \/ \E j \in 2..3 :
                 /\ sx.items[j].kind = "list"
                 /\ Len(sx.items[j].items) = 3
                 /\ sx.items[j].items[2] = var_list(name, s1)

\* C25: a symbol inside nested quantifiers that bind the same name compiles
\* to the variable of the innermost enclosing binder, and a quantifier's
\* variables are in scope only in its body: a use beside or after the
\* quantifier does not compile to them.
C25_InnermostBinderBodyScope ==
    /\ (compile_ended /\ binds_twice(comp_sexpr)) =>
          /\ comp_pc = "compiled"
          /\ LET inner == quantifier_operand(comp_rv.kids[2])
             IN  /\ inner.kids[2] = bound_variable(inner)
                 /\ plain_operand(comp_rv.kids[2]) = bound_variable(comp_rv)
    /\ (compile_ended /\ use_beside_binder(comp_sexpr)) =>
          /\ comp_pc = "compiled"
          /\ quantifier_operand(comp_rv).kids[2]
                = bound_variable(quantifier_operand(comp_rv))
          /\ plain_operand(comp_rv).kind # "VARIABLE"

\* It holds of every name that is neither the name of a registered Function
\* nor a sentinel token.
C25_ScopesUnlessTakenName ==
    binds_taken_name(comp_sexpr) \/ C25_InnermostBinderBodyScope

\* one name bound twice with different sorts, compiled
C25_Reached ==
    /\ comp_pc = "compiled"
    /\ binds_twice(comp_sexpr)
    /\ bound_variable(comp_rv).sort # bound_variable(quantifier_operand(comp_rv.kids[2])).sort
    /\ bound_variable(comp_rv).sym = w_age

(***************************************************************************)
(* process_user_response_streaming (interface.py 273-364): a generator.    *)
(* One action is one resumption by the consumer, up to the next yield.     *)
(***************************************************************************)
ProgressUpdate(message, detail) ==
    [type |-> "ProgressUpdate", message |-> message, detail |-> detail]

\* interface.py 355-363
FinalSummary(f) ==
    [type |-> "FinalSummary", message |-> "summary", detail |-> f]

\* what a step of the pipeline does: answers, or raises an Exception
StepOutcomes == {"returns", "raises"}

\* what extract_logical_statement gives (interface.py 307-314)
ExtractOutcomes == {"statement", "unable to extract", "empty", "raises"}

\* what the chatbot answers, and the statements extracted from an answer
AssistantResponses == {"The patient had diabetes", "The patient is 55"}

Statements == {"(= (D E11 13180) tfu_true)", "(= age 55)"}

\* interface.py 348-354: an exception that reaches the outer handler is
\* recorded and the summary is yielded at once.
summary_after_exception(f, ex) ==
    FinalSummary([f EXCEPT !.error_messages = Append(@, ex)])

\* runs the prover whatever extraction gave
validity_checked_always(stmt) == TRUE

\* interface.py 319: `if extracted_logical_stmt:`
validity_checked(stmt) == stmt \notin {None, ""}

\* interface.py 332-342: the timers that ran
timers_run(f, corrupt) ==
    {"agent", "extraction"}
    \cup (IF corrupt THEN {"corruption"} ELSE {})
    \cup (IF f.valid # None THEN {"theorem prover"} ELSE {})

\* interface.py 289
StreamStart ==
    /\ stream_pc = "start"
    /\ events' = Append(events, ProgressUpdate("Computing initial response...", None))
    /\ stream_pc' = "chatbot"
    /\ UNCHANGED <<checkVars, kbVars, raceVars, dateVars, parseVars, compVars,
                   ctxVars,
                   chatVars, procVars, do_corrupt, frame>>

\* interface.py 291-297
StreamChatbot ==
    /\ stream_pc = "chatbot"
    /\ \E outcome \in StepOutcomes, response \in AssistantResponses :
          IF outcome = "raises"
          THEN /\ events' = Append(events,
                              summary_after_exception(frame, "chatbot_agent"))
               /\ stream_pc' = "summarized"
               /\ frame' = [frame EXCEPT !.error_messages =
                                            Append(@, "chatbot_agent")]
          ELSE /\ frame' = [frame EXCEPT !.assistant_response = response]
               /\ events' = Append(events,
                              ProgressUpdate("Initial response", response))
               /\ stream_pc' = IF do_corrupt THEN "corrupting" ELSE "extract"
    /\ UNCHANGED <<checkVars, kbVars, raceVars, dateVars, parseVars, compVars,
                   ctxVars,
                   chatVars, procVars, do_corrupt>>

\* interface.py 299-300
StreamAnnounceCorruption ==
    /\ stream_pc = "corrupting"
    /\ events' = Append(events, ProgressUpdate("Corrupting response...", None))
    /\ stream_pc' = "corrupt"
    /\ UNCHANGED <<checkVars, kbVars, raceVars, dateVars, parseVars, compVars,
                   ctxVars,
                   chatVars, procVars, do_corrupt, frame>>

\* interface.py 301-305
StreamCorrupt ==
    /\ stream_pc = "corrupt"
    /\ \E outcome \in StepOutcomes :
          IF outcome = "raises"
          THEN /\ events' = Append(events,
                              summary_after_exception(frame, "corrupt_response"))
               /\ stream_pc' = "summarized"
               /\ frame' = [frame EXCEPT !.error_messages =
                                            Append(@, "corrupt_response")]
          ELSE /\ frame' = [frame EXCEPT !.corrupted_response = "corrupted"]
               /\ events' = Append(events,
                              ProgressUpdate("Corrupted response", "corrupted"))
               /\ stream_pc' = "extract"
    /\ UNCHANGED <<checkVars, kbVars, raceVars, dateVars, parseVars, compVars,
                   ctxVars,
                   chatVars, procVars, do_corrupt>>

\* interface.py 306-318 (309-311 after the else branch of 306-308)
StreamExtract ==
    /\ stream_pc = "extract"
    /\ \E outcome \in ExtractOutcomes, statement \in Statements :
          LET stmt == CASE outcome = "statement" -> statement
                        [] outcome = "empty" -> ""
                        [] OTHER -> None
          IN  /\ frame' = [frame EXCEPT !.extracted_logical_stmt = stmt]
              /\ events' = Append(events, ProgressUpdate("Extracted", stmt))
    /\ stream_pc' = "validity"
    /\ UNCHANGED <<checkVars, kbVars, raceVars, dateVars, parseVars, compVars,
                   ctxVars,
                   chatVars, procVars, do_corrupt>>

\* interface.py 320-344, and 355-363 when no Validity event is yielded
StreamValidity ==
    /\ stream_pc = "validity"
    /\ IF validity_checked(frame.extracted_logical_stmt)
       THEN \E orig \in Results \cup {"throws"}, neg \in Results \cup {"throws"} :
               LET f == IF "throws" \in {orig, neg}
                              \/ frame.extracted_logical_stmt \in {None, ""}
                        THEN [frame EXCEPT !.valid = "unknown"]
                        ELSE [frame EXCEPT !.valid = validity_rv(orig, neg),
                                           !.original_result = orig,
                                           !.negated_result = neg]
               IN  /\ frame' = f
                   /\ events' = Append(events, ProgressUpdate("Validity",
                          <<f.valid, f.original_result, f.negated_result>>))
                   /\ stream_pc' = "durations"
       ELSE LET f == [frame EXCEPT !.durations = timers_run(frame, do_corrupt)]
            IN  /\ frame' = f
                /\ events' = Append(events, FinalSummary(f))
                /\ stream_pc' = "summarized"
    /\ UNCHANGED <<checkVars, kbVars, raceVars, dateVars, parseVars, compVars,
                   ctxVars,
                   chatVars, procVars, do_corrupt>>

\* interface.py 332-363, after the Validity event
StreamSummarize ==
    /\ stream_pc = "durations"
    /\ LET f == [frame EXCEPT !.durations = timers_run(frame, do_corrupt)]
       IN  /\ frame' = f
           /\ events' = Append(events, FinalSummary(f))
    /\ stream_pc' = "summarized"
    /\ UNCHANGED <<checkVars, kbVars, raceVars, dateVars, parseVars, compVars,
                   ctxVars,
                   chatVars, procVars, do_corrupt>>

\* the generator returns: the consumer's next() raises StopIteration
StreamExhaust ==
    /\ stream_pc = "summarized"
    /\ stream_pc' = "exhausted"
    /\ UNCHANGED <<checkVars, kbVars, raceVars, dateVars, parseVars, compVars,
                   ctxVars,
                   chatVars, procVars, do_corrupt, frame, events>>

StreamInit ==
    /\ CheckIdle
    /\ KBIdle
    /\ RaceIdle
    /\ DateIdle
    /\ ParseIdle
    /\ CompIdle
    /\ CtxIdle
    /\ ChatIdle
    /\ ProcIdle
    /\ do_corrupt \in BOOLEAN
    /\ stream_pc = "start"
    /\ frame = initial_frame
    /\ events = <<>>

StreamNext ==
    \/ StreamStart \/ StreamChatbot \/ StreamAnnounceCorruption
    \/ StreamCorrupt \/ StreamExtract \/ StreamValidity \/ StreamSummarize
    \/ StreamExhaust

SpecStream == StreamInit /\ [][StreamNext]_vars

is_validity(e) == e.type = "ProgressUpdate" /\ e.message = "Validity"

\* C26: a run consumed to exhaustion has yielded one or more ProgressUpdate
\* events and then exactly one FinalSummary, the last event, also when the
\* chatbot, corruption, extraction or validity step raised; a "Validity"
\* progress event is yielded only when extraction produced a statement.
C26_ProgressThenOneSummary ==
    /\ (stream_pc = "exhausted") =>
          /\ Len(events) >= 2
          /\ events[Len(events)].type = "FinalSummary"
          /\ \A k \in 1..(Len(events) - 1) : events[k].type = "ProgressUpdate"
    /\ \A k \in 1..Len(events) :
          is_validity(events[k]) =>
             /\ frame.extracted_logical_stmt \notin {None, ""}
             /\ events[k - 1] =
                   ProgressUpdate("Extracted", frame.extracted_logical_stmt)

\* a run in which the validity step raised, consumed to exhaustion
C26_Witness ==
    /\ stream_pc = "exhausted"
    /\ \E k \in 1..Len(events) :
          is_validity(events[k]) /\ events[k].detail = <<"unknown", None, None>>
    /\ events[Len(events)].type = "FinalSummary"

\* a run in which the chatbot raised, consumed to exhaustion
C26_ChatbotRaised ==
    /\ stream_pc = "exhausted"
    /\ frame.error_messages = <<"chatbot_agent">>
    /\ Len(events) = 2

(***************************************************************************)
(* One statement, whose two queries answer query_outcome.orig and         *)
(* query_outcome.neg, checked by check_statement_validity and by           *)
(* check_statement_validity_in_parallel (core.py 926-1021).                *)
(***************************************************************************)
Outcomes == Results \cup {"throws"}

answer_of(p) == IF p = "p1" THEN query_outcome.orig ELSE query_outcome.neg

\* core.py 940
RaceOrigQuery ==
    /\ mode = "sequential"
    /\ seq_pc = "orig"
    /\ IF query_outcome.orig = "throws"
       THEN /\ seq_pc' = "raised"
            /\ threw' = "orig"
            /\ UNCHANGED orig_result
       ELSE /\ orig_result' = query_outcome.orig
            /\ seq_pc' = "negated"
            /\ UNCHANGED threw
    /\ UNCHANGED <<mode, truth, negated_result, rv, summary, parVars, kbVars,
                   auxVars>>

\* core.py 942
RaceNegatedQuery ==
    /\ mode = "sequential"
    /\ seq_pc = "negated"
    /\ IF query_outcome.neg = "throws"
       THEN /\ seq_pc' = "raised"
            /\ threw' = "negated"
            /\ UNCHANGED negated_result
       ELSE /\ negated_result' = query_outcome.neg
            /\ seq_pc' = "combine"
            /\ UNCHANGED threw
    /\ UNCHANGED <<mode, truth, orig_result, rv, summary, parVars, kbVars,
                   auxVars>>

\* core.py 958-966
RaceJobPut(p) ==
    /\ mode = "parallel"
    /\ proc[p] = "running"
    /\ result_q' = Append(result_q, job_message(p, answer_of(p)))
    /\ proc' = [proc EXCEPT ![p] = "added"]
    /\ UNCHANGED <<kbVars, auxVars, mode, truth, seqVars, coord_pc,
                   first_result, running_process, par_rv, reads, alive_seen,
                   terminated>>

RaceInit ==
    /\ mode \in {"sequential", "parallel"}
    /\ truth = [orig |-> TRUE, neg |-> TRUE]
    /\ seq_pc = "orig"
    /\ orig_result = None
    /\ negated_result = None
    /\ rv = None
    /\ summary = [valid |-> None, original_result |-> None,
                  negated_result |-> None]
    /\ threw = None
    /\ coord_pc = "start"
    /\ proc = [p \in Procs |-> "unstarted"]
    /\ result_q = <<>>
    /\ first_result = <<>>
    /\ running_process = None
    /\ par_rv = None
    /\ reads = 0
    /\ alive_seen = None
    /\ terminated = None
    /\ KBIdle
    /\ DateIdle
    /\ ParseIdle
    /\ CompIdle
    /\ CtxIdle
    /\ ChatIdle
    /\ ProcIdle
    /\ StreamIdle
    /\ query_outcome \in [orig : Outcomes, neg : Outcomes]

RaceNext ==
    \/ RaceOrigQuery
    \/ RaceNegatedQuery
    \/ SeqCombine
    \/ ParStartP1
    \/ ParStartP2
    \/ \E p \in Procs : RaceJobPut(p)
    \/ \E p \in Procs : JobExit(p)
    \/ ParGet
    \/ ParTerminate
    \/ ParVerdict

SpecRace == RaceInit /\ [][RaceNext]_vars

decisive ==
    \/ query_outcome.orig = "unsat" /\ query_outcome.neg = "sat"
    \/ query_outcome.orig = "sat" /\ query_outcome.neg = "unsat"

\* what the parallel check ends with when worker p delivers the first
\* message
ending_if_first(p) ==
    IF answer_of(p) = "throws" THEN "raises"
    ELSE parallel_rv(p, answer_of(p))

\* the run ended as it would have had the other worker been first
same_whoever_first ==
    par_rv = ending_if_first(other_process(first_result[1]))

\* the other worker, had it been first, would have led to another verdict
verdict_depends_on_race ==
    /\ ending_if_first(other_process(first_result[1])) \in Verdicts
    /\ ~same_whoever_first

unsat_count ==
    Cardinality({q \in {"orig", "neg"} : query_outcome[q] = "unsat"})

for_decisive_statements ==
    /\ (coord_pc = "returned" /\ decisive) =>
          /\ same_whoever_first
          /\ par_rv = validity_rv(query_outcome.orig, query_outcome.neg)
    /\ (seq_pc = "returned" /\ decisive) =>
          rv = validity_rv(query_outcome.orig, query_outcome.neg)

\* C27: for a decisive statement - (orig unsat, negated sat) or (orig sat,
\* negated unsat) - the parallel check returns the same verdict whichever
\* worker finishes first, the verdict the sequential check returns; the
\* verdict depends on the race only when neither query is unsat or both
\* are.
C27_RaceOnlyWithoutOneUnsat ==
    /\ for_decisive_statements
    /\ (coord_pc = "returned" /\ verdict_depends_on_race) => (unsat_count # 1)

\* C27 amended: ... the verdict depends on the race only when neither query
\* is unsat, both are, or one is unsat and the other is unknown.
C27_RaceOnlyWhenNotDecisive ==
    /\ for_decisive_statements
    /\ (coord_pc = "returned" /\ verdict_depends_on_race) =>
          \/ unsat_count # 1
          \/ "unknown" \in {query_outcome.orig, query_outcome.neg}

\* a decisive statement whose negated query was first, the original
\* query's answer still unread
C27_Witness ==
    /\ coord_pc = "returned"
    /\ query_outcome = [orig |-> "unsat", neg |-> "sat"]
    /\ first_result[1] = "p2"
    /\ par_rv = "false"

(***************************************************************************)
(* The interpolation axioms and the discriminator values.                  *)
(***************************************************************************)
\* true/false Facts at distinct times for the discriminator value icd
plain_history(icd) ==
    LET tf == these_facts_of(icd, facts)
    IN  \A k \in 1..Len(tf) :
           /\ tf[k].result \in {tfu_true, tfu_false}
           /\ \A j \in 1..Len(tf) : (tf[j].args[2] = tf[k].args[2]) => (j = k)

\* the values the D axioms of the context leave for D(icd, t)
values_left(icd, t) == PointValues(axioms, "D", <<icd, t>>)

\* C28: the interpolation axioms generated for one observed discriminator
\* value constrain D at that value only: with Facts for two values with
\* different histories the axioms are satisfiable and each value follows
\* its own history, and a value with no Facts is not forced to follow
\* another value's history.
C28_OwnHistoryOnly ==
    (/\ kb_pc \in {"axioms", "checked"}
     /\ \A icd \in ICDs : plain_history(icd)) =>
        \A icd \in ICDs, t \in QueryDates :
            IF icd \in observed_icds(facts)
            THEN values_left(icd, t) = {interpolated(icd, t)}
            ELSE values_left(icd, t) = TFU

\* What the axioms do: every discriminator value is left the same values,
\* whether it has Facts or not.
C28_AllValuesAlike ==
    (kb_pc \in {"axioms", "checked"}) =>
        \A icd1 \in ICDs, icd2 \in ICDs, t \in QueryDates :
            values_left(icd1, t) = values_left(icd2, t)

\* two discriminator values with different histories, axioms generated
C28_TwoHistories ==
    /\ kb_pc = "axioms"
    /\ observed_icds(facts) = ICDs
    /\ \A icd \in ICDs : plain_history(icd)
    /\ \E t \in QueryDates : interpolated("E11", t) # interpolated("I10", t)

(***************************************************************************)
(* Termination of parse_sexpr_from_str (utils.py 247-312).                 *)
(***************************************************************************)
\* utils.py 308-311: the loop is run for as long as idx < len(sexpr).
SpecParseFair == SpecParse /\ WF_vars(ParseNext)

scan_returned_normally == parse_pc = "scanning" /\ parse_pc' = "scanning"

\* C29: parse_sexpr_from_str terminates on every input: each call of
\* scan_to_end_of_token that returns normally moves idx strictly forward
\* (and never past the end by more than one), so the loop runs at most
\* len(input) times, and the call ends by returning or raising.
C29_ScanAdvancesAndEnds ==
    /\ [][scan_returned_normally
            => (idx' > idx /\ idx' <= Len(sexpr) + 1)]_vars
    /\ <>(parse_pc \in {"returned", "raised"})

\* the scan stepped back to leave a ")" for the next call
C29_Witness ==
    /\ parse_pc = "scanning"
    /\ idx > 1
    /\ idx <= Len(sexpr)
    /\ sexpr[idx] = CLOSE
    /\ sexpr[idx - 1] = "a"

(***************************************************************************)
(* The worker processes when check_statement_validity_in_parallel ends     *)
(* (core.py 958-966, 977-1001).                                            *)
(***************************************************************************)
parallel_finished == mode = "parallel" /\ coord_pc \in {"returned", "raised"}

\* C30: whenever check_statement_validity_in_parallel finishes, by returning
\* a verdict or by raising, neither worker process is still running, on
\* every interleaving and also when the first message is an error report.
C30_NoWorkerRunningAtEnd ==
    parallel_finished => \A p \in Procs : ~is_alive(p)

\* What the code does ensure: on a normal return the worker that did not
\* deliver the first result has exited or has been terminated and joined.
C30_OtherWorkerStoppedOnReturn ==
    (mode = "parallel" /\ coord_pc = "returned")
        => ~is_alive(running_process)

\* the first message was an error report, the parent raised on unpacking
\* it, and the other worker is still computing
C30_RaisedWithWorkerRunning ==
    /\ mode = "parallel"
    /\ coord_pc = "raised"
    /\ Len(first_result) = 2
    /\ proc[other_process(first_result[1])] = "running"

====
